---------------------------- MODULE Spec2Model ----------------------------
(***************************************************************************)
(* RespiLens: the NC forecast processing script                            *)
(* (scripts/process_nc_model_data.R) and the view / URL state of the web   *)
(* app (app/src/contexts/ViewContext.jsx, app/src/utils/urlManager.js).    *)
(*                                                                         *)
(* Conventions                                                             *)
(*   - a URL parameter is a set with at most one element: {} is "absent",  *)
(*     {v} is "present with value v";                                      *)
(*   - a comma separated parameter value is the sequence of its tokens     *)
(*     (dates and model ids hold no comma);                                *)
(*   - dates are week numbers 1, 2, ... (ISO dates order the same way),    *)
(*     NullDate stands for JavaScript's null;                              *)
(*   - a real number of the R script is an integer number of               *)
(*     ten-thousandths (0.025 is 250, 50.5 is 505000); a mean is the pair  *)
(*     of the sum and the number of values averaged.                       *)
(***************************************************************************)
EXTENDS Integers, Sequences, FiniteSets, Bags

VARIABLES
  \* ---- web app: ViewContext.jsx / urlManager.js / App.jsx
  url,              \* the browser's query string (react-router location)
  viewType,         \* ViewProvider state
  selectedDates,    \* ViewProvider state
  selectedModels,   \* ViewProvider state
  activeDate,       \* ViewProvider state
  selectedLocation, \* AppContent state
  availableDates,   \* window.availableDates (<<>> when undefined)
  mounted,          \* has ViewProvider been rendered once
  events,           \* number of user events handled so far
  lastOp,           \* the handler that ran last and its arguments
  \* ---- R script: convert_from_sample on one group
  draws,            \* the sample draws of one group, in file order
  qout,             \* the reframe()d rows of the group
  qpc,              \* "ready" | "converted"
  \* ---- R script: the run of process_nc_model_data.R
  hub,              \* flu_modeloutput: the model-output files
  remote,           \* the FluSight-ensemble file on GitHub, per date
  rawTarget,        \* nc_data/<latest>_hosp_admissions.csv
  loc_dic,          \* auxiliary-data/locations.csv
  unwritable,       \* the output paths at which write_csv() fails
  pc,               \* the section of the script that runs next
  idx,              \* position in the vector the section loops over
  model_outputs,    \* ensemble section: the tables read so far
  outdir,           \* the files written, by <<model directory, date>>
  target_data,      \* the ground-truth table written
  ensInputs,        \* per date: the models whose tables were combined
  \* ---- R script: one call of write_csv_with_dir, and a reader of its file
  wdata,            \* the table to write
  wprev,            \* the file at file_path before the call
  wdir,             \* does dirname(file_path) exist
  wfile,            \* the file at file_path now
  wpc,              \* "mkdir" | "open" | "write" | "closed"
  reads,            \* what the reader has seen at file_path
  \* ---- web app: ForecastViz.jsx and RSVDefaultView.jsx loading a file
  fvFile,           \* the processed JSON file that fetch() returns
  fvPc,             \* ForecastViz: "fetch" | "loaded" | "selected" | "settled"
  fvAvailableDates, \* ForecastViz availableDates state
  fvModels,         \* ForecastViz models state
  rsvPc,            \* RSVDefaultView: "fetch" | "done"
  rsvModels,        \* RSVDefaultView models state
  rsvSelectedModels,\* RSVDefaultView selectedModels state
  fvInFlight,       \* ForecastViz: the bag of fetches started and not answered
  fvData,           \* ForecastViz data state: the fetch whose file is shown
  fvError,          \* ForecastViz error state: the fetch whose error is shown
  fvLoading,        \* ForecastViz loading state
  fvEffects         \* ForecastViz: the effects to run after the last render

urlVars == <<url, viewType, selectedDates, selectedModels, activeDate,
             selectedLocation, availableDates, mounted, events, lastOp>>
quantVars == <<draws, qout, qpc>>
pipeVars == <<hub, remote, rawTarget, loc_dic, unwritable, pc, idx, model_outputs, outdir,
              target_data, ensInputs>>
writerVars == <<wdata, wprev, wdir, wfile, wpc, reads>>
raceVars == <<fvInFlight, fvData, fvError, fvLoading, fvEffects>>
loadVars == <<fvFile, fvPc, fvAvailableDates, fvModels, rsvPc, rsvModels,
              rsvSelectedModels, raceVars>>
vars == <<urlVars, quantVars, pipeVars, writerVars, loadVars>>

(***************************************************************************)
(* Generic helpers                                                         *)
(***************************************************************************)
Range(s) == {s[i] : i \in 1..Len(s)}

(***************************************************************************)
(* app/src/config/datasets.js                                              *)
(***************************************************************************)
\* Object.entries(DATASETS), in insertion order. defaultModel is a set:
\* {} where the entry has none (nhsn).
DATASETS == <<
  [shortName |-> "flu", prefix |-> "flu", defaultModel |-> {"FluSight-ensemble"},
   hasDateSelector |-> TRUE, hasModelSelector |-> TRUE],
  [shortName |-> "rsv", prefix |-> "rsv", defaultModel |-> {"hub-ensemble"},
   hasDateSelector |-> TRUE, hasModelSelector |-> TRUE],
  [shortName |-> "nhsn", prefix |-> "nhsn", defaultModel |-> {},
   hasDateSelector |-> FALSE, hasModelSelector |-> FALSE] >>

\* JavaScript's null for "no dataset"
NullDataset == [shortName |-> "null"]

\* The view names the app can hold: the four the README lists for the
\* datasets, and "detailed", the view name of the earlier releases, which
\* holds no dataset's short name.
ViewNames == {"fludetailed", "flutimeseries", "rsvdetailed", "nhsnraw", "detailed"}

\* String.prototype.includes for the view names above
Includes(view, shortName) ==
  CASE view = "fludetailed"   -> shortName = "flu"
    [] view = "flutimeseries" -> shortName = "flu"
    [] view = "rsvdetailed"   -> shortName = "rsv"
    [] view = "nhsnraw"       -> shortName = "nhsn"
    [] view = "rsv"           -> shortName = "rsv"
    [] OTHER                  -> FALSE

(***************************************************************************)
(* app/src/utils/urlManager.js : URLParameterManager                       *)
(***************************************************************************)
ParamNames == {"view", "location", "flu_dates", "flu_models",
               "rsv_dates", "rsv_models", "nhsn_columns",
               "nhsn_dates", "nhsn_models", "dates", "models"}

\* `${prefix}_dates` and `${prefix}_models`
DatesParam(prefix) ==
  CASE prefix = "flu" -> "flu_dates" [] prefix = "rsv" -> "rsv_dates"
    [] OTHER -> "nhsn_dates"
ModelsParam(prefix) ==
  CASE prefix = "flu" -> "flu_models" [] prefix = "rsv" -> "rsv_models"
    [] OTHER -> "nhsn_models"

\* URLSearchParams.set / delete on a copy
ParamSet(params, name, value) == [params EXCEPT ![name] = {value}]
ParamDelete(params, name) == [params EXCEPT ![name] = {}]

\* Array.prototype.join(','): the tokens in order
Join(list) == list

getDatasetFromView(view) ==
  IF \E i \in 1..Len(DATASETS) : Includes(view, DATASETS[i].shortName)
  THEN DATASETS[CHOOSE i \in 1..Len(DATASETS) :
                  /\ Includes(view, DATASETS[i].shortName)
                  /\ \A j \in 1..(i-1) : ~Includes(view, DATASETS[j].shortName)]
  ELSE NullDataset

\* oldDataset?.shortName : undefined for null
OptShortName(dataset) ==
  IF dataset = NullDataset THEN "undefined" ELSE dataset.shortName

\* a clearing that keeps the view parameter only
clearAllParams(searchParams, dataset) ==
  [n \in ParamNames |-> IF n = "view" THEN searchParams[n] ELSE {}]

\* clearDatasetParams(dataset): the parameters handed to setSearchParams.
\* searchParams is the manager's copy, taken when ViewProvider rendered.
clearDatasetParams(searchParams, dataset) ==
  LET p1 == IF dataset.hasDateSelector
            THEN ParamDelete(searchParams, DatesParam(dataset.prefix))
            ELSE searchParams
      p2 == IF dataset.hasModelSelector
            THEN ParamDelete(p1, ModelsParam(dataset.prefix))
            ELSE p1
  IN IF dataset.shortName = "nhsn" THEN ParamDelete(p2, "nhsn_columns") ELSE p2

\* updateDatasetParams(dataset, newParams): the parameters handed to
\* setSearchParams. newParams is a record whose fields dates / models /
\* columns are sets: {} when the key is missing, {list} otherwise.
updateDatasetParams(searchParams, dataset, newParams) ==
  LET p1 == IF dataset.hasDateSelector /\ newParams.dates # {}
            THEN ParamSet(searchParams, DatesParam(dataset.prefix),
                          Join(CHOOSE l \in newParams.dates : TRUE))
            ELSE searchParams
      p2 == IF dataset.hasModelSelector /\ newParams.models # {}
            THEN ParamSet(p1, ModelsParam(dataset.prefix),
                          Join(CHOOSE l \in newParams.models : TRUE))
            ELSE p1
  IN IF dataset.shortName = "nhsn" /\ newParams.columns # {}
     THEN ParamSet(p2, "nhsn_columns", Join(CHOOSE l \in newParams.columns : TRUE))
     ELSE p2

NoNewParams == [dates |-> {}, models |-> {}, columns |-> {}]

\* Does URLParameterManager.handleViewChange throw? clearDatasetParams(null)
\* reads null.prefix.
handleViewChangeThrows(oldView, newView) ==
  LET oldDataset == getDatasetFromView(oldView)
      newDataset == getDatasetFromView(newView)
  IN /\ OptShortName(oldDataset) # OptShortName(newDataset)
     /\ oldDataset = NullDataset

\* handleViewChange with the old dataset's parameters dropped on every
\* change of view
handleViewChangeClearsCalls(searchParams, oldView, newView) ==
  LET oldDataset == getDatasetFromView(oldView)
  IN IF oldDataset = NullDataset
     THEN <<ParamSet(searchParams, "view", newView)>>
     ELSE <<ParamSet(clearDatasetParams(searchParams, oldDataset), "view", newView)>>

\* URLParameterManager.handleViewChange: the navigations it issues, in
\* order. Every setSearchParams call replaces the whole query string, and
\* every call starts from this.searchParams, the copy of the last render.
handleViewChangeCalls(searchParams, oldView, newView) ==
  LET oldDataset == getDatasetFromView(oldView)
      newDataset == getDatasetFromView(newView)
      cleared == IF OptShortName(oldDataset) # OptShortName(newDataset)
                 THEN <<clearDatasetParams(searchParams, oldDataset)>>
                 ELSE <<>>
  IN cleared \o <<ParamSet(searchParams, "view", newView)>>

\* updateViewParam(newView): the parameters handed to setSearchParams
updateViewParam(searchParams, newView) == ParamSet(searchParams, "view", newView)

\* The query string after a run of setSearchParams calls: the last one
Navigate(current, calls) ==
  IF calls = <<>> THEN current ELSE calls[Len(calls)]



(***************************************************************************)
(* Bounds of the web app model                                             *)
(***************************************************************************)
MaxDate == 2
MaxEvents == 3
Dates == 1..MaxDate
NullDate == 0
Locations == {"US", "NC"}
ModelIds == {"FluSight-ensemble", "hub-ensemble"}

\* every available reference date, ascending
AllDates == [i \in 1..MaxDate |-> i]

\* the date lists and model lists a selector can hand to the context
DateLists == {<<>>, <<MaxDate>>, <<1, MaxDate>>}
ModelLists == {<<>>} \cup {<<m>> : m \in ModelIds}

\* the query strings the app can be opened with
InitialUrls ==
  { [n \in ParamNames |->
       CASE n = "view" -> v
         [] n = "location" -> l
         [] n = "flu_dates" -> IF flu THEN {<<1>>} ELSE {}
         [] n = "flu_models" -> IF flu THEN {<<"hub-ensemble">>} ELSE {}
         [] n = "rsv_dates" -> IF rsv THEN {<<1>>} ELSE {}
         [] n = "nhsn_columns" -> IF nhsn THEN {<<"totalconfflunewadm">>} ELSE {}
         [] OTHER -> {}] :
    v \in {{}} \cup {{x} : x \in ViewNames},
    l \in {{}, {"NC"}},
    flu \in BOOLEAN, rsv \in BOOLEAN, nhsn \in BOOLEAN }

NoOp == [op |-> "none", from |-> "", to |-> "", threw |-> FALSE]
Op(name) == [op |-> name, from |-> "", to |-> "", threw |-> FALSE]

(***************************************************************************)
(* app/src/contexts/ViewContext.jsx and App.jsx                            *)
(***************************************************************************)
UrlInit ==
  /\ url \in InitialUrls
  /\ availableDates \in {<<>>, AllDates}
  /\ viewType = ""
  /\ selectedDates = <<>>
  /\ selectedModels = <<>>
  /\ activeDate = NullDate
  /\ selectedLocation = ""
  /\ mounted = FALSE
  /\ events = 0
  /\ lastOp = NoOp

\* The first render: ViewProvider's viewType initialiser, then AppContent's
\* selectedLocation initialiser. Both read the searchParams of this render,
\* the query string the app was opened with. The initialiser calls
\* setSearchParams while the component renders for the first time: the
\* router either navigates or drops a navigation asked for that early
\* (react-router is not part of the sources), so both outcomes are kept.
ViewProviderInit ==
  /\ ~mounted
  /\ LET urlView == url["view"]
     IN /\ url' \in IF urlView = {}
                    THEN {ParamSet(ParamSet(url, "view", "fludetailed"),
                                   "location", "US"),
                          url}
                    ELSE {url}
        /\ viewType' = IF urlView = {} THEN "fludetailed"
                       ELSE CHOOSE v \in urlView : TRUE
  /\ selectedLocation' = IF url["location"] = {} THEN "US"
                         ELSE CHOOSE l \in url["location"] : TRUE
  /\ mounted' = TRUE
  /\ lastOp' = Op("init")
  /\ UNCHANGED <<selectedDates, selectedModels, activeDate, availableDates, events>>

\* ViewProvider.handleViewChange (the context's setViewType)
handleViewChange(newView) ==
  /\ mounted /\ events < MaxEvents
  /\ events' = events + 1
  /\ LET oldView == viewType
     IN IF oldView = newView
        THEN /\ lastOp' = [op |-> "handleViewChange", from |-> oldView,
                           to |-> newView, threw |-> FALSE]
             /\ UNCHANGED <<url, viewType, selectedDates, selectedModels, activeDate>>
        ELSE IF handleViewChangeThrows(oldView, newView)
        THEN \* the TypeError leaves the handler before any state is set
             /\ lastOp' = [op |-> "handleViewChange", from |-> oldView,
                           to |-> newView, threw |-> TRUE]
             /\ UNCHANGED <<url, viewType, selectedDates, selectedModels, activeDate>>
        ELSE /\ url' = Navigate(url, handleViewChangeCalls(url, oldView, newView))
             /\ IF OptShortName(getDatasetFromView(oldView))
                     # OptShortName(getDatasetFromView(newView))
                THEN /\ selectedDates' = <<>>
                     /\ selectedModels' = <<>>
                     /\ activeDate' = NullDate
                ELSE UNCHANGED <<selectedDates, selectedModels, activeDate>>
             /\ viewType' = newView
             /\ lastOp' = [op |-> "handleViewChange", from |-> oldView,
                           to |-> newView, threw |-> FALSE]
  /\ UNCHANGED <<selectedLocation, availableDates, mounted>>

\* ViewProvider.updateDatasetParams(params): the navigations it issues
ctxUpdateDatasetParamsCalls(searchParams, view, params) ==
  LET currentDataset == getDatasetFromView(view)
  IN IF currentDataset # NullDataset
     THEN <<updateDatasetParams(searchParams, currentDataset, params)>>
     ELSE <<>>

\* contextValue.setSelectedDates(dates)
setSelectedDates(dates) ==
  /\ mounted /\ events < MaxEvents
  /\ events' = events + 1
  /\ selectedDates' = dates
  /\ url' = Navigate(url, ctxUpdateDatasetParamsCalls(url, viewType,
                            [NoNewParams EXCEPT !.dates = {dates}]))
  /\ lastOp' = Op("setSelectedDates")
  /\ UNCHANGED <<viewType, selectedModels, activeDate, selectedLocation,
                 availableDates, mounted>>

\* contextValue.setSelectedModels(models)
setSelectedModels(models) ==
  /\ mounted /\ events < MaxEvents
  /\ events' = events + 1
  /\ selectedModels' = models
  /\ url' = Navigate(url, ctxUpdateDatasetParamsCalls(url, viewType,
                            [NoNewParams EXCEPT !.models = {models}]))
  /\ lastOp' = Op("setSelectedModels")
  /\ UNCHANGED <<viewType, selectedDates, activeDate, selectedLocation,
                 availableDates, mounted>>

\* contextValue.setActiveDate(date): the useState setter itself
setActiveDate(date) ==
  /\ mounted /\ events < MaxEvents
  /\ events' = events + 1
  /\ activeDate' = date
  /\ lastOp' = Op("setActiveDate")
  /\ UNCHANGED <<url, viewType, selectedDates, selectedModels, selectedLocation,
                 availableDates, mounted>>

\* window.availableDates?.[window.availableDates.length - 1], as a set
latestAvailable(avail) == IF avail = <<>> THEN {} ELSE {avail[Len(avail)]}

\* ViewProvider.resetView: the navigations it issues, in order
resetViewCalls(searchParams, view, avail) ==
  LET currentDataset == getDatasetFromView(view)
      latestDate == latestAvailable(avail)
      c1 == <<clearDatasetParams(searchParams, currentDataset)>>
      c2 == IF currentDataset.hasDateSelector /\ latestDate # {}
            THEN ctxUpdateDatasetParamsCalls(searchParams, view,
                   [NoNewParams EXCEPT !.dates = {<<CHOOSE d \in latestDate : TRUE>>}])
            ELSE <<>>
      c3 == IF currentDataset.hasModelSelector /\ currentDataset.defaultModel # {}
            THEN ctxUpdateDatasetParamsCalls(searchParams, view,
                   [NoNewParams EXCEPT !.models =
                      {<<CHOOSE m \in currentDataset.defaultModel : TRUE>>}])
            ELSE <<>>
  IN c1 \o c2 \o c3

\* ViewProvider.resetView
resetView ==
  /\ mounted /\ events < MaxEvents
  /\ events' = events + 1
  /\ LET currentDataset == getDatasetFromView(viewType)
         latestDate == latestAvailable(availableDates)
     IN IF currentDataset = NullDataset
        THEN UNCHANGED <<url, selectedDates, selectedModels, activeDate>>
        ELSE /\ url' = Navigate(url, resetViewCalls(url, viewType, availableDates))
             /\ IF currentDataset.hasDateSelector /\ latestDate # {}
                THEN /\ selectedDates' = <<CHOOSE d \in latestDate : TRUE>>
                     /\ activeDate' = CHOOSE d \in latestDate : TRUE
                ELSE UNCHANGED <<selectedDates, activeDate>>
             /\ IF currentDataset.hasModelSelector /\ currentDataset.defaultModel # {}
                THEN selectedModels' = <<CHOOSE m \in currentDataset.defaultModel : TRUE>>
                ELSE UNCHANGED selectedModels
  /\ lastOp' = Op("resetView")
  /\ UNCHANGED <<viewType, selectedLocation, availableDates, mounted>>

\* AppContent.handleStateSelect(newLocation)
handleStateSelect(newLocation) ==
  /\ mounted /\ events < MaxEvents
  /\ events' = events + 1
  /\ url' = Navigate(url, <<ParamSet(url, "location", newLocation)>>)
  /\ selectedLocation' = newLocation
  /\ lastOp' = Op("handleStateSelect")
  /\ UNCHANGED <<viewType, selectedDates, selectedModels, activeDate,
                 availableDates, mounted>>

(***************************************************************************)
(* app/src/utils/urlManager.js : the methods of URLParameterManager called *)
(* one after another, each on the manager of the current render            *)
(* (ViewContext.jsx line 27 builds one per render from useSearchParams)    *)
(***************************************************************************)
\* the newParams objects handed to updateDatasetParams
NewParamsArgs ==
  {[dates |-> d, models |-> m, columns |-> c] :
     d \in {{}, {<<MaxDate>>}}, m \in {{}, {<<"FluSight-ensemble">>}},
     c \in {{}, {<<"totalconfrsvnewadm">>}}}

\* the record of a call of a manager method
MgrOp(name, a, b, t) == [op |-> name, from |-> a, to |-> b, threw |-> t]

MgrInit ==
  /\ url \in InitialUrls
  /\ mounted = TRUE
  /\ events = 0
  /\ lastOp = NoOp
  /\ availableDates = <<>> /\ viewType = "" /\ selectedDates = <<>>
  /\ selectedModels = <<>> /\ activeDate = NullDate /\ selectedLocation = ""

\* urlManager.clearDatasetParams(dataset)
MgrClearDatasetParams(dataset) ==
  /\ events < MaxEvents
  /\ events' = events + 1
  /\ url' = Navigate(url, <<clearDatasetParams(url, dataset)>>)
  /\ lastOp' = MgrOp("clearDatasetParams", dataset.prefix, "", FALSE)
  /\ UNCHANGED <<viewType, selectedDates, selectedModels, activeDate,
                 selectedLocation, availableDates, mounted>>

\* urlManager.updateDatasetParams(dataset, newParams)
MgrUpdateDatasetParams(dataset, newParams) ==
  /\ events < MaxEvents
  /\ events' = events + 1
  /\ url' = Navigate(url, <<updateDatasetParams(url, dataset, newParams)>>)
  /\ lastOp' = MgrOp("updateDatasetParams", dataset.prefix, "", FALSE)
  /\ UNCHANGED <<viewType, selectedDates, selectedModels, activeDate,
                 selectedLocation, availableDates, mounted>>

\* urlManager.handleViewChange(oldView, newView)
MgrHandleViewChange(oldView, newView) ==
  /\ events < MaxEvents
  /\ events' = events + 1
  /\ IF handleViewChangeThrows(oldView, newView)
     THEN url' = url
     ELSE url' = Navigate(url, handleViewChangeCalls(url, oldView, newView))
  /\ lastOp' = MgrOp("handleViewChange", oldView, newView,
                     handleViewChangeThrows(oldView, newView))
  /\ UNCHANGED <<viewType, selectedDates, selectedModels, activeDate,
                 selectedLocation, availableDates, mounted>>

\* urlManager.updateViewParam(newView)
MgrUpdateViewParam(newView) ==
  /\ events < MaxEvents
  /\ events' = events + 1
  /\ url' = Navigate(url, <<updateViewParam(url, newView)>>)
  /\ lastOp' = MgrOp("updateViewParam", "", newView, FALSE)
  /\ UNCHANGED <<viewType, selectedDates, selectedModels, activeDate,
                 selectedLocation, availableDates, mounted>>

UrlIdle ==
  /\ url = [n \in ParamNames |-> {}]
  /\ availableDates = <<>>
  /\ viewType = ""
  /\ selectedDates = <<>>
  /\ selectedModels = <<>>
  /\ activeDate = NullDate
  /\ selectedLocation = ""
  /\ mounted = FALSE
  /\ events = 0
  /\ lastOp = NoOp

QuantIdle == draws = <<>> /\ qout = <<>> /\ qpc = "idle"

PipeIdle ==
  /\ hub = {} /\ remote = <<>> /\ rawTarget = {} /\ loc_dic = {}
  /\ unwritable = {}
  /\ pc = "idle" /\ idx = 0 /\ model_outputs = <<>> /\ outdir = <<>>
  /\ target_data = {} /\ ensInputs = <<>>

\* no file at file_path
NoFile == [exists |-> FALSE, lines |-> <<>>]

WriterIdle ==
  /\ wdata = <<>> /\ wprev = NoFile /\ wdir = FALSE /\ wfile = NoFile
  /\ wpc = "idle" /\ reads = {}

\* a fetch started by the effect: the location and view it asks for, and
\* the selected models and query string of the render that started it
Fetch(location, view, models, searchParams) ==
  [location |-> location, view |-> view, models |-> models,
   url |-> searchParams]

\* ForecastViz.jsx 655-657: the file a fetch asks for, which is what the
\* data and error states keep of it
FetchId(f) ==
  [location |-> f.location,
   dataType |-> IF f.view = "rsv" THEN "rsv" ELSE "flu"]

\* no fetch: the null of the data and error states
NoFetch == [location |-> "", dataType |-> ""]

\* no file, no component mounted
NoJson == [ok |-> FALSE, dates |-> {}, models |-> <<>>]

LoadIdle ==
  /\ fvFile = NoJson /\ fvPc = "idle" /\ fvAvailableDates = <<>>
  /\ fvModels = <<>> /\ rsvPc = "idle" /\ rsvModels = <<>>
  /\ rsvSelectedModels = <<>>
  /\ fvInFlight = EmptyBag /\ fvData = NoFetch /\ fvError = NoFetch
  /\ fvLoading = FALSE /\ fvEffects = {}

InitUrl == UrlInit /\ QuantIdle /\ PipeIdle /\ WriterIdle /\ LoadIdle
NextUrl ==
  \/ ViewProviderInit /\ UNCHANGED <<quantVars, pipeVars, writerVars, loadVars>>
  \/ (\E v \in ViewNames : handleViewChange(v)) /\ UNCHANGED <<quantVars, pipeVars, writerVars, loadVars>>
  \/ (\E l \in DateLists : setSelectedDates(l)) /\ UNCHANGED <<quantVars, pipeVars, writerVars, loadVars>>
  \/ (\E l \in ModelLists : setSelectedModels(l)) /\ UNCHANGED <<quantVars, pipeVars, writerVars, loadVars>>
  \/ (\E d \in Dates : setActiveDate(d)) /\ UNCHANGED <<quantVars, pipeVars, writerVars, loadVars>>
  \/ resetView /\ UNCHANGED <<quantVars, pipeVars, writerVars, loadVars>>
  \/ (\E l \in Locations : handleStateSelect(l)) /\ UNCHANGED <<quantVars, pipeVars, writerVars, loadVars>>
SpecUrl == InitUrl /\ [][NextUrl]_vars

InitManager == MgrInit /\ QuantIdle /\ PipeIdle /\ WriterIdle /\ LoadIdle
NextManager ==
  \/ (\E i \in 1..Len(DATASETS) : MgrClearDatasetParams(DATASETS[i]))
       /\ UNCHANGED <<quantVars, pipeVars, writerVars, loadVars>>
  \/ (\E i \in 1..Len(DATASETS), np \in NewParamsArgs :
         MgrUpdateDatasetParams(DATASETS[i], np))
       /\ UNCHANGED <<quantVars, pipeVars, writerVars, loadVars>>
  \/ (\E v \in ViewNames, w \in ViewNames : MgrHandleViewChange(v, w))
       /\ UNCHANGED <<quantVars, pipeVars, writerVars, loadVars>>
  \/ (\E v \in ViewNames : MgrUpdateViewParam(v))
       /\ UNCHANGED <<quantVars, pipeVars, writerVars, loadVars>>
SpecManager == InitManager /\ [][NextManager]_vars


(***************************************************************************)
(* The context's setters called by the components: one call in an event,   *)
(* or two calls in one run of an effect                                    *)
(***************************************************************************)
\* the views whose dataset has a date and a model selector
SelectorViews == {"fludetailed", "flutimeseries", "rsvdetailed"}

\* a view open with nothing selected and no dataset parameter in the URL
MirrorInit ==
  /\ url \in { [n \in ParamNames |->
                  CASE n = "view" -> {v}
                    [] n = "location" -> {"NC"}
                    [] OTHER -> {}] : v \in SelectorViews }
  /\ viewType = CHOOSE v \in url["view"] : TRUE
  /\ selectedLocation = "NC"
  /\ selectedDates = <<>> /\ selectedModels = <<>> /\ activeDate = NullDate
  /\ availableDates = AllDates /\ mounted = TRUE /\ events = 0
  /\ lastOp = NoOp

\* ForecastViz.jsx 578-606 with both selections empty: one run of the
\* effect calls setSelectedDates, setActiveDate and setSelectedModels. Both
\* URL writes are made by the manager of the same render, from the same
\* query string.
initializeSelections(dates, models) ==
  /\ mounted /\ events < MaxEvents
  /\ selectedDates = <<>> /\ selectedModels = <<>>
  /\ dates # <<>> /\ models # <<>>
  /\ events' = events + 1
  /\ selectedDates' = dates
  /\ activeDate' = dates[1]
  /\ selectedModels' = models
  /\ url' = Navigate(url,
              ctxUpdateDatasetParamsCalls(url, viewType,
                [NoNewParams EXCEPT !.dates = {dates}])
              \o ctxUpdateDatasetParamsCalls(url, viewType,
                   [NoNewParams EXCEPT !.models = {models}]))
  /\ lastOp' = Op("initializeSelections")
  /\ UNCHANGED <<viewType, selectedLocation, availableDates, mounted>>

InitMirror == MirrorInit /\ QuantIdle /\ PipeIdle /\ WriterIdle /\ LoadIdle

NextMirror ==
  \/ (\E l \in DateLists : setSelectedDates(l)) /\ UNCHANGED <<quantVars, pipeVars, writerVars, loadVars>>
  \/ (\E l \in ModelLists : setSelectedModels(l)) /\ UNCHANGED <<quantVars, pipeVars, writerVars, loadVars>>
  \/ (\E d \in DateLists, m \in ModelLists : initializeSelections(d, m)) /\ UNCHANGED <<quantVars, pipeVars, writerVars, loadVars>>

SpecMirror == InitMirror /\ [][NextMirror]_vars

(***************************************************************************)
(* app/src/components/ForecastViz.jsx (the release that reads the view     *)
(* context) and RSVDefaultView.jsx: a view loading its file                *)
(***************************************************************************)
\* the models a processed file can hold, in localeCompare / code unit order
LoadModelIds == <<"CEPH-Rtrend_fluH", "FluSight-ensemble", "hub-ensemble">>

\* a reference date no file holds
StaleDate == MaxDate + 1

\* Object.keys(parsedData.forecasts).sort(): the dates ascending
SortedDates(S) ==
  [i \in 1..Cardinality(S) |->
     CHOOSE d \in S : Cardinality({e \in S : e < d}) = i - 1]

\* Array.from(models).sort(): the models in the order of LoadModelIds
SortedModels(list) ==
  SelectSeq(LoadModelIds, LAMBDA m : m \in Range(list))

\* Array.prototype.filter(x => list.includes(x))
FilterIncluded(tokens, list) ==
  SelectSeq(tokens, LAMBDA x : x \in Range(list))

\* Array.prototype.slice(0, 1)
Slice01(list) == IF list = <<>> THEN <<>> ELSE <<list[1]>>

\* searchParams.get(name)?.split(',') || []
SplitParam(params, name) ==
  IF params[name] = {} THEN <<>> ELSE CHOOSE l \in params[name] : TRUE

\* the sequences without repetition over the models: the order in which
\* the models are met in a file
ModelOrders ==
  {q \in UNION {[1..n -> Range(LoadModelIds)] : n \in 0..Len(LoadModelIds)} :
     \A i \in 1..Len(q), j \in 1..Len(q) : i # j => q[i] # q[j]}

\* the processed files: the reference dates of forecasts and the models,
\* and the file that is not served (response.ok false)
LoadFiles ==
  {[ok |-> TRUE, dates |-> d, models |-> m] :
     d \in SUBSET Dates, m \in ModelOrders} \cup {NoJson}

\* the views of this release ('rsv') and of the view context
LoadViews == {"fludetailed", "flutimeseries", "rsvdetailed", "rsv"}

\* the query strings a view is opened with
LoadUrls ==
  { [n \in ParamNames |->
       CASE n = "view" -> {v}
         [] n = "location" -> {"NC"}
         [] n = "dates" -> d
         [] n = "models" -> m
         [] OTHER -> {}] :
    v \in LoadViews,
    d \in {{}, {<<1>>}, {<<StaleDate>>}},
    m \in {{}, {<<"hub-ensemble">>}} }

LoadInit ==
  /\ url \in LoadUrls
  /\ viewType = CHOOSE v \in url["view"] : TRUE
  /\ selectedLocation = "NC"
  /\ selectedDates = <<>> /\ selectedModels = <<>> /\ activeDate = NullDate
  /\ availableDates = <<>> /\ mounted = TRUE /\ events = 0 /\ lastOp = NoOp
  /\ fvFile \in LoadFiles
  /\ fvPc = "fetch"
  /\ fvAvailableDates = <<>> /\ fvModels = <<>>
  /\ rsvPc = "idle" /\ rsvModels = <<>> /\ rsvSelectedModels = <<>>
  /\ fvInFlight = SetToBag({Fetch(selectedLocation, viewType, selectedModels, url)})
  /\ fvData = NoFetch /\ fvError = NoFetch /\ fvLoading = TRUE
  /\ fvEffects = {}


\* ForecastViz.jsx 655: const isRSV = viewType === 'rsv'
isRSV == viewType = "rsv"

\* ForecastViz.jsx 711-716: the model selected when the file is loaded
FluDefaultModels(modelList) ==
  IF "FluSight-ensemble" \in Range(modelList)
  THEN <<"FluSight-ensemble">>
  ELSE Slice01(modelList)

\* ForecastViz.jsx 686-717, what the fetch effect does with the parsed
\* file. view, closureModels and closureUrl are the viewType, the selected
\* models and the query string of the render that started the effect: the
\* async function and the context setters it calls were made by that
\* render. The RSV branch selects the latest date only; the other branch
\* lists the models and dates of the file and selects a model. The setters
\* are the context's, so each also writes the dataset's URL parameter.
FetchedSelections(file, view, closureModels, closureUrl) ==
  LET dates == SortedDates(file.dates)
      modelList == SortedModels(file.models)
      latestDate == dates[Len(dates)]
  IN IF view = "rsv"
     THEN /\ IF dates # <<>>
             THEN /\ selectedDates' = <<latestDate>>
                  /\ activeDate' = latestDate
                  /\ url' = Navigate(url,
                       ctxUpdateDatasetParamsCalls(closureUrl, view,
                         [NoNewParams EXCEPT !.dates = {<<latestDate>>}]))
             ELSE UNCHANGED <<selectedDates, activeDate, url>>
          /\ rsvPc' = "fetch"
          /\ UNCHANGED <<selectedModels, fvModels, fvAvailableDates>>
     ELSE /\ fvModels' = modelList
          /\ fvAvailableDates' = dates
          /\ IF closureModels = <<>>
             THEN /\ selectedModels' = FluDefaultModels(modelList)
                  /\ url' = Navigate(url,
                       ctxUpdateDatasetParamsCalls(closureUrl, view,
                         [NoNewParams EXCEPT
                            !.models = {FluDefaultModels(modelList)}]))
             ELSE UNCHANGED <<selectedModels, url>>
          /\ UNCHANGED <<selectedDates, activeDate, rsvPc>>

\* ForecastViz.jsx 648-728, the fetch effect of the first load when the
\* file is served
FvFetchDone ==
  /\ fvPc = "fetch" /\ fvFile.ok
  /\ FetchedSelections(fvFile, viewType, selectedModels, url)
  /\ fvPc' = "loaded"
  /\ fvInFlight' = EmptyBag
  /\ fvData' = FetchId(CHOOSE f \in BagToSet(fvInFlight) : TRUE)
  /\ fvLoading' = FALSE
  /\ UNCHANGED <<viewType, selectedLocation, availableDates, mounted, events,
                 lastOp, fvFile, rsvModels, rsvSelectedModels, fvError,
                 fvEffects>>

\* ForecastViz.jsx 648-728, the fetch effect of the first load when the
\* file is not served: the catch sets the error and nothing is selected
FvFetchFails ==
  /\ fvPc = "fetch" /\ ~fvFile.ok
  /\ fvPc' = "failed"
  /\ fvInFlight' = EmptyBag
  /\ fvError' = FetchId(CHOOSE f \in BagToSet(fvInFlight) : TRUE)
  /\ fvLoading' = FALSE
  /\ UNCHANGED <<urlVars, fvFile, fvAvailableDates, fvModels, rsvPc,
                 rsvModels, rsvSelectedModels, fvData, fvEffects>>

\* ForecastViz.jsx 578-606, the effect that initialises the selections
\* from the 'dates' and 'models' URL parameters or from defaults.  Both
\* setters start from the same snapshot of the query string.
FvInitializeSelections ==
  /\ fvPc = "loaded"
  /\ fvPc' = "selected"
  /\ IF /\ fvAvailableDates # <<>> /\ fvModels # <<>>
        /\ (selectedDates = <<>> \/ selectedModels = <<>>)
     THEN LET validDates ==
                FilterIncluded(SplitParam(url, "dates"), fvAvailableDates)
              validModels ==
                FilterIncluded(SplitParam(url, "models"), fvModels)
              latestDate == fvAvailableDates[Len(fvAvailableDates)]
              newDates == IF validDates # <<>> THEN validDates
                          ELSE <<latestDate>>
              newModels == IF validModels # <<>> THEN validModels
                           ELSE IF "FluSight-ensemble" \in Range(fvModels)
                                THEN <<"FluSight-ensemble">>
                                ELSE <<fvModels[1]>>
              dateCalls ==
                IF selectedDates = <<>>
                THEN ctxUpdateDatasetParamsCalls(url, viewType,
                       [NoNewParams EXCEPT !.dates = {newDates}])
                ELSE <<>>
              modelCalls ==
                IF selectedModels = <<>>
                THEN ctxUpdateDatasetParamsCalls(url, viewType,
                       [NoNewParams EXCEPT !.models = {newModels}])
                ELSE <<>>
          IN /\ selectedDates' = IF selectedDates = <<>> THEN newDates
                                 ELSE selectedDates
             /\ activeDate' = IF selectedDates = <<>> THEN newDates[1]
                              ELSE activeDate
             /\ selectedModels' = IF selectedModels = <<>> THEN newModels
                                  ELSE selectedModels
             /\ url' = Navigate(url, dateCalls \o modelCalls)
     ELSE UNCHANGED <<selectedDates, activeDate, selectedModels, url>>
  /\ UNCHANGED <<viewType, selectedLocation, availableDates, mounted, events,
                 lastOp, fvFile, fvAvailableDates, fvModels, rsvPc,
                 rsvModels, rsvSelectedModels, raceVars>>

\* ForecastViz.jsx 608-617, the effect that copies the selections and the
\* location to the 'dates', 'models' and 'location' URL parameters
FvUpdateUrl ==
  /\ fvPc = "selected"
  /\ fvPc' = "settled"
  /\ url' = IF selectedDates # <<>> /\ selectedModels # <<>>
            THEN ParamSet(ParamSet(ParamSet(url,
                   "dates", Join(selectedDates)),
                   "models", Join(selectedModels)),
                   "location", selectedLocation)
            ELSE url
  /\ UNCHANGED <<viewType, selectedDates, selectedModels, activeDate,
                 selectedLocation, availableDates, mounted, events, lastOp,
                 fvFile, fvAvailableDates, fvModels, rsvPc, rsvModels,
                 rsvSelectedModels, raceVars>>

\* RSVDefaultView.jsx 19-59, fetchData: the models of the file are listed
\* sorted, and the first model met in the file is selected
RsvFetchDone ==
  /\ rsvPc = "fetch"
  /\ rsvPc' = "done"
  /\ rsvModels' = SortedModels(fvFile.models)
  /\ rsvSelectedModels' =
       IF rsvSelectedModels = <<>> /\ fvFile.models # <<>>
       THEN <<fvFile.models[1]>>
       ELSE rsvSelectedModels
  /\ UNCHANGED <<urlVars, fvFile, fvPc, fvAvailableDates, fvModels, raceVars>>

InitLoad == LoadInit /\ QuantIdle /\ PipeIdle /\ WriterIdle

NextLoad ==
  \/ FvFetchDone /\ UNCHANGED <<quantVars, pipeVars, writerVars>>
  \/ FvFetchFails /\ UNCHANGED <<quantVars, pipeVars, writerVars>>
  \/ FvInitializeSelections /\ UNCHANGED <<quantVars, pipeVars, writerVars>>
  \/ FvUpdateUrl /\ UNCHANGED <<quantVars, pipeVars, writerVars>>
  \/ RsvFetchDone /\ UNCHANGED <<quantVars, pipeVars, writerVars>>

SpecLoad == InitLoad /\ [][NextLoad]_vars

(***************************************************************************)
(* app/src/components/ForecastViz.jsx with ViewContext.jsx and App.jsx:    *)
(* the location or the view changes while fetches are in flight.           *)
(*                                                                         *)
(* The context value is rebuilt by every render of ViewProvider            *)
(* (ViewContext.jsx 82-99), so setSelectedDates and setSelectedModels are  *)
(* new functions after every render of the provider, and the fetch effect, *)
(* which lists them in its dependencies (ForecastViz.jsx 728), runs again  *)
(* after each of them.  No effect returns a cleanup function and no fetch  *)
(* is aborted.  The effects of a render run together, in the order of the  *)
(* component; a click or a response is handled when none is pending.       *)
(***************************************************************************)
\* the clicks of a session
MaxClicks == 1

\* the file served for a location
RaceFile(location) ==
  IF location = "NC"
  THEN [ok |-> TRUE, dates |-> {1}, models |-> <<"FluSight-ensemble">>]
  ELSE [ok |-> TRUE, dates |-> Dates,
        models |-> <<"hub-ensemble", "FluSight-ensemble">>]

\* ForecastViz.jsx 580-581: the test of the initialising effect
InitializeRuns ==
  /\ ~fvLoading /\ fvData # NoFetch
  /\ fvAvailableDates # <<>> /\ fvModels # <<>>
  /\ (selectedDates = <<>> \/ selectedModels = <<>>)

\* ForecastViz.jsx 586-594: the dates the initialising effect selects
InitializeDates ==
  LET validDates == FilterIncluded(SplitParam(url, "dates"), fvAvailableDates)
  IN IF validDates # <<>> THEN validDates
     ELSE <<fvAvailableDates[Len(fvAvailableDates)]>>

\* ForecastViz.jsx 597-603: the models the initialising effect selects
InitializeModels ==
  LET validModels == FilterIncluded(SplitParam(url, "models"), fvModels)
  IN IF validModels # <<>> THEN validModels
     ELSE IF "FluSight-ensemble" \in Range(fvModels)
          THEN <<"FluSight-ensemble">> ELSE <<fvModels[1]>>

\* ForecastViz mounts on the location of the URL: loading starts true
\* (line 561) and every effect runs after the first render
RaceInit ==
  /\ MirrorInit
  /\ fvFile = NoJson /\ fvPc = "idle" /\ fvAvailableDates = <<>>
  /\ fvModels = <<>> /\ rsvPc = "idle" /\ rsvModels = <<>>
  /\ rsvSelectedModels = <<>>
  /\ fvInFlight = EmptyBag /\ fvData = NoFetch /\ fvError = NoFetch
  /\ fvLoading = TRUE /\ fvEffects = {"init", "url", "fetch"}

\* App.jsx handleStateSelect from the state selector of the mounted view:
\* the location prop changes, which the fetch effect depends on
RaceSelectLocation(newLocation) ==
  /\ fvEffects = {} /\ newLocation # selectedLocation
  /\ events < MaxClicks
  /\ handleStateSelect(newLocation)
  /\ fvEffects' = {"fetch"}
  /\ UNCHANGED <<fvFile, fvPc, fvAvailableDates, fvModels, rsvPc, rsvModels,
                 rsvSelectedModels, fvInFlight, fvData, fvError, fvLoading>>

\* ViewContext.jsx handleViewChange from the view selector: viewType
\* changes, which the fetch effect depends on; the selections are set anew
\* when the dataset changes, which the URL effect depends on
RaceChangeView(newView) ==
  /\ fvEffects = {} /\ newView # viewType
  /\ events < MaxClicks
  /\ handleViewChange(newView)
  /\ fvEffects' =
       {"fetch"} \cup
       (IF OptShortName(getDatasetFromView(viewType))
             # OptShortName(getDatasetFromView(newView))
        THEN {"url"} ELSE {})
  /\ UNCHANGED <<fvFile, fvPc, fvAvailableDates, fvModels, rsvPc, rsvModels,
                 rsvSelectedModels, fvInFlight, fvData, fvError, fvLoading>>

\* ForecastViz.jsx 578-606, 608-617 and 648-660: the pending effects of a
\* render, all with the values of that render.  The initialising effect
\* selects through the context setters; the URL effect writes the
\* selections and the location; the fetch effect clears data and error,
\* sets loading and starts a fetch that keeps the render's viewType,
\* selected models and setters.  A context setter or a URL write renders
\* the provider again, and with it the fetch effect.
RaceRunEffects ==
  /\ fvEffects # {}
  /\ LET initRuns == "init" \in fvEffects /\ InitializeRuns
         setsDates == initRuns /\ selectedDates = <<>>
         setsModels == initRuns /\ selectedModels = <<>>
         dateCalls ==
           IF setsDates
           THEN ctxUpdateDatasetParamsCalls(url, viewType,
                  [NoNewParams EXCEPT !.dates = {InitializeDates}])
           ELSE <<>>
         modelCalls ==
           IF setsModels
           THEN ctxUpdateDatasetParamsCalls(url, viewType,
                  [NoNewParams EXCEPT !.models = {InitializeModels}])
           ELSE <<>>
         urlCalls ==
           IF /\ "url" \in fvEffects
              /\ selectedDates # <<>> /\ selectedModels # <<>>
           THEN <<ParamSet(ParamSet(ParamSet(url,
                    "dates", Join(selectedDates)),
                    "models", Join(selectedModels)),
                    "location", selectedLocation)>>
           ELSE <<>>
         calls == dateCalls \o modelCalls \o urlCalls
         fetchRuns == "fetch" \in fvEffects
     IN /\ selectedDates' = IF setsDates THEN InitializeDates
                            ELSE selectedDates
        /\ activeDate' = IF setsDates THEN InitializeDates[1] ELSE activeDate
        /\ selectedModels' = IF setsModels THEN InitializeModels
                             ELSE selectedModels
        /\ url' = Navigate(url, calls)
        /\ IF fetchRuns
           THEN /\ fvData' = NoFetch /\ fvError' = NoFetch
                /\ fvLoading' = TRUE
                /\ fvInFlight' = fvInFlight (+)
                     SetToBag({Fetch(selectedLocation, viewType,
                                     selectedModels, url)})
           ELSE UNCHANGED <<fvData, fvError, fvLoading, fvInFlight>>
        /\ fvEffects' =
             (IF initRuns \/ calls # <<>> THEN {"fetch"} ELSE {}) \cup
             (IF initRuns THEN {"url"} ELSE {}) \cup
             (IF fetchRuns /\ (fvData # NoFetch \/ ~fvLoading)
              THEN {"init"} ELSE {})
  /\ UNCHANGED <<viewType, selectedLocation, availableDates, mounted, events,
                 lastOp, fvFile, fvPc, fvAvailableDates, fvModels, rsvPc,
                 rsvModels, rsvSelectedModels>>

\* ForecastViz.jsx 660-723: the continuation of a fetch in flight, whichever
\* it is.  A served file becomes the data and its models and dates are
\* listed; with no model selected in the render that started the fetch a
\* model is selected through the context setter.  A response that is not ok
\* becomes the error.  Either way loading is set false.
RaceResponse(f, ok) ==
  /\ fvEffects = {} /\ BagIn(f, fvInFlight)
  /\ fvInFlight' = fvInFlight (-) SetToBag({f})
  /\ fvLoading' = FALSE
  /\ IF ok
     THEN /\ fvData' = FetchId(f)
          /\ FetchedSelections(RaceFile(f.location), f.view, f.models, f.url)
          /\ fvEffects' = {"init"} \cup
               (IF f.models = <<>> THEN {"url", "fetch"} ELSE {})
          /\ UNCHANGED fvError
     ELSE /\ fvError' = FetchId(f)
          /\ fvEffects' = IF fvLoading THEN {"init"} ELSE {}
          /\ UNCHANGED <<url, selectedDates, selectedModels, activeDate,
                         fvAvailableDates, fvModels, rsvPc, fvData>>
  /\ UNCHANGED <<viewType, selectedLocation, availableDates, mounted, events,
                 lastOp, fvFile, fvPc, rsvModels, rsvSelectedModels>>

InitRace == RaceInit /\ QuantIdle /\ PipeIdle /\ WriterIdle

NextRace ==
  \/ (\E l \in Locations : RaceSelectLocation(l)) /\ UNCHANGED <<quantVars, pipeVars, writerVars>>
  \/ (\E v \in SelectorViews : RaceChangeView(v)) /\ UNCHANGED <<quantVars, pipeVars, writerVars>>
  \/ RaceRunEffects /\ UNCHANGED <<quantVars, pipeVars, writerVars>>
  \/ (\E f \in BagToSet(fvInFlight), ok \in BOOLEAN : RaceResponse(f, ok)) /\ UNCHANGED <<quantVars, pipeVars, writerVars>>

SpecRace == InitRace /\ [][NextRace]_vars

(***************************************************************************)
(* app/src/components/InfoOverlay.jsx (ModelSelector) and DateSelector.jsx *)
(* calling the context's setters with a function of the previous selection *)
(***************************************************************************)
\* InfoOverlay.jsx 57-61: prev => prev.includes(model) ? prev.filter(m =>
\* m !== model) : [...prev, model]
ToggleModel(model, prev) ==
  IF model \in Range(prev) THEN SelectSeq(prev, LAMBDA m : m # model)
  ELSE Append(prev, model)

\* DateSelector.jsx 37: dates => dates.filter(d => d !== date)
FilterOut(date, dates) == SelectSeq(dates, LAMBDA d : d # date)

\* urlManager.js 66-73 handed a function as newParams.dates or .models: a
\* function is truthy and has no join method, so the call of join throws a
\* TypeError where the dataset has the selector
JoinThrows(view, param) ==
  LET dataset == getDatasetFromView(view)
  IN /\ dataset # NullDataset
     /\ IF param = "dates" THEN dataset.hasDateSelector
        ELSE dataset.hasModelSelector

\* InfoOverlay.jsx 51-62 toggleModelSelection with allowMultiple, through
\* ViewContext.jsx 84-87: React applies the function to the previous
\* selection; updateDatasetParams({models}) is handed the function itself
toggleModelSelection(model) ==
  /\ mounted /\ events < MaxEvents
  /\ events' = events + 1
  /\ selectedModels' = ToggleModel(model, selectedModels)
  /\ url' = IF JoinThrows(viewType, "models") THEN url
            ELSE Navigate(url, ctxUpdateDatasetParamsCalls(url, viewType,
                                 NoNewParams))
  /\ lastOp' = [op |-> "toggleModelSelection", from |-> "", to |-> model,
                threw |-> JoinThrows(viewType, "models")]
  /\ UNCHANGED <<viewType, selectedDates, activeDate, selectedLocation,
                 availableDates, mounted>>

\* DateSelector.jsx 36-43, the remove button (disabled with one date
\* selected), through ViewContext.jsx 89-92
removeDate(date) ==
  /\ mounted /\ events < MaxEvents
  /\ date \in Range(selectedDates) /\ Len(selectedDates) # 1
  /\ events' = events + 1
  /\ selectedDates' = FilterOut(date, selectedDates)
  /\ url' = IF JoinThrows(viewType, "dates") THEN url
            ELSE Navigate(url, ctxUpdateDatasetParamsCalls(url, viewType,
                                 NoNewParams))
  /\ lastOp' = [op |-> "removeDate", from |-> "", to |-> date,
                threw |-> JoinThrows(viewType, "dates")]
  /\ UNCHANGED <<viewType, selectedModels, activeDate, selectedLocation,
                 availableDates, mounted>>

InitUpdater == MirrorInit /\ QuantIdle /\ PipeIdle /\ WriterIdle /\ LoadIdle

NextUpdater ==
  \/ (\E l \in DateLists : setSelectedDates(l)) /\ UNCHANGED <<quantVars, pipeVars, writerVars, loadVars>>
  \/ (\E l \in ModelLists : setSelectedModels(l)) /\ UNCHANGED <<quantVars, pipeVars, writerVars, loadVars>>
  \/ (\E m \in ModelIds : toggleModelSelection(m)) /\ UNCHANGED <<quantVars, pipeVars, writerVars, loadVars>>
  \/ (\E d \in Dates : removeDate(d)) /\ UNCHANGED <<quantVars, pipeVars, writerVars, loadVars>>

SpecUpdater == InitUpdater /\ [][NextUpdater]_vars

(***************************************************************************)
(* app/src/components/DateSelector.jsx (the same handlers are inlined in   *)
(* ForecastViz.jsx 975-1076): shifting, removing and adding selected dates *)
(*                                                                         *)
(* A date is the rank of its ISO string, so that Array.prototype.sort and  *)
(* the comparison of Date objects are both the order of the integers.      *)
(* Indices count from 1: 0 is indexOf's -1.                                *)
(***************************************************************************)
MaxAvailable == 6

\* DateSelector.jsx 71, 74, 97: at most five dates
MaxSelected == 5

\* Array.prototype.indexOf, plus one
IndexOf(list, x) ==
  IF x \in Range(list)
  THEN CHOOSE i \in 1..Len(list) :
         list[i] = x /\ \A j \in 1..(i - 1) : list[j] # x
  ELSE 0

\* the list as it is, not sorted
SortList_unsorted(list) == list

\* Array.prototype.sort on dates: the same elements, repeated ones too, in
\* ascending order
SortList(list) ==
  [i \in 1..Len(list) |->
     CHOOSE v \in Range(list) :
       /\ Cardinality({j \in 1..Len(list) : list[j] < v}) < i
       /\ i <= Cardinality({j \in 1..Len(list) : list[j] <= v})]

\* the selections the selector is shown with: between one and five
\* available dates in ascending order
SelectableDates ==
  {SortedDates(S) : S \in {T \in SUBSET (1..MaxAvailable) :
                             Cardinality(T) \in 1..MaxSelected}}

DatesInit ==
  /\ url = [n \in ParamNames |->
              CASE n = "view" -> {"fludetailed"}
                [] n = "location" -> {"NC"}
                [] OTHER -> {}]
  /\ viewType = "fludetailed" /\ selectedLocation = "NC"
  /\ availableDates = [i \in 1..MaxAvailable |-> i]
  /\ selectedDates \in SelectableDates
  /\ activeDate \in Range(selectedDates)
  /\ selectedModels = <<>> /\ mounted = TRUE /\ events = 0
  /\ lastOp = NoOp

\* lines 11-21 and 48-58: the selection after the arrow of date is pressed,
\* target being the index of the neighbouring available date and
\* neighbour the index, in the sorted selection, of the date it must not
\* reach.  <<>> when the handler sets nothing.
ShiftedDates(date, target, neighbour) ==
  LET sortedDates == SortList(selectedDates)
      toward == IF target < IndexOf(availableDates, date) THEN -1 ELSE 1
  IN IF /\ target \in 1..Len(availableDates)
        /\ \/ neighbour \notin 1..Len(sortedDates)
           \/ toward * availableDates[target] < toward * sortedDates[neighbour]
     THEN SortList([selectedDates EXCEPT
                      ![IndexOf(selectedDates, date)] = availableDates[target]])
     ELSE <<>>

\* lines 9-27: the left arrow of a selected date, enabled unless the date
\* is the first available one or the previous available date is selected
shiftLeft(date) ==
  /\ mounted /\ events < MaxEvents
  /\ date \in Range(selectedDates)
  /\ LET dateIndex == IndexOf(availableDates, date)
         newDates == ShiftedDates(date, dateIndex - 1,
                       IndexOf(SortList(selectedDates), date) - 1)
     IN /\ dateIndex # 1
        /\ ~(dateIndex - 1 \in 1..Len(availableDates)
             /\ availableDates[dateIndex - 1] \in Range(selectedDates))
        /\ IF newDates # <<>>
           THEN /\ selectedDates' = newDates
                /\ activeDate' = availableDates[dateIndex - 1]
                /\ url' = Navigate(url,
                     ctxUpdateDatasetParamsCalls(url, viewType,
                       [NoNewParams EXCEPT !.dates = {newDates}]))
           ELSE UNCHANGED <<selectedDates, activeDate, url>>
  /\ events' = events + 1
  /\ lastOp' = [op |-> "shiftLeft", from |-> date, to |-> "", threw |-> FALSE]
  /\ UNCHANGED <<viewType, selectedModels, selectedLocation, availableDates,
                 mounted>>

\* lines 46-64: the right arrow of a selected date
shiftRight(date) ==
  /\ mounted /\ events < MaxEvents
  /\ date \in Range(selectedDates)
  /\ LET dateIndex == IndexOf(availableDates, date)
         newDates == ShiftedDates(date, dateIndex + 1,
                       IndexOf(SortList(selectedDates), date) + 1)
     IN /\ dateIndex # Len(availableDates)
        /\ ~(dateIndex + 1 \in 1..Len(availableDates)
             /\ availableDates[dateIndex + 1] \in Range(selectedDates))
        /\ IF newDates # <<>>
           THEN /\ selectedDates' = newDates
                /\ activeDate' = availableDates[dateIndex + 1]
                /\ url' = Navigate(url,
                     ctxUpdateDatasetParamsCalls(url, viewType,
                       [NoNewParams EXCEPT !.dates = {newDates}]))
           ELSE UNCHANGED <<selectedDates, activeDate, url>>
  /\ events' = events + 1
  /\ lastOp' = [op |-> "shiftRight", from |-> date, to |-> "", threw |-> FALSE]
  /\ UNCHANGED <<viewType, selectedModels, selectedLocation, availableDates,
                 mounted>>

\* lines 76-90: the date the Add button picks, as a set: the available
\* date after the latest selected one or, when the latest selected date is
\* the last available one, the available date before the earliest selected
\* one; {} when dateToAdd stays undefined
dateToAdd ==
  LET sortedSelectedDates == SortList(selectedDates)
      latestSelectedIdx ==
        IndexOf(availableDates, sortedSelectedDates[Len(sortedSelectedDates)])
      earliestSelectedIdx == IndexOf(availableDates, sortedSelectedDates[1])
  IN IF latestSelectedIdx = Len(availableDates)
     THEN IF earliestSelectedIdx > 1
          THEN {availableDates[earliestSelectedIdx - 1]} ELSE {}
     ELSE {availableDates[latestSelectedIdx + 1]}

\* the Add Date button rendered whatever the number of dates
addDate_unbounded ==
  /\ mounted /\ events < MaxEvents
  /\ IF dateToAdd # {} /\ dateToAdd \cap Range(selectedDates) = {}
     THEN LET added == CHOOSE d \in dateToAdd : TRUE
              newDates == SortList(Append(selectedDates, added))
          IN /\ selectedDates' = newDates
             /\ activeDate' = added
             /\ url' = Navigate(url,
                  ctxUpdateDatasetParamsCalls(url, viewType,
                    [NoNewParams EXCEPT !.dates = {newDates}]))
     ELSE UNCHANGED <<selectedDates, activeDate, url>>
  /\ events' = events + 1
  /\ lastOp' = Op("addDate")
  /\ UNCHANGED <<viewType, selectedModels, selectedLocation, availableDates,
                 mounted>>

\* lines 71-106: the Add Date button, rendered with fewer than five dates
addDate ==
  /\ mounted /\ events < MaxEvents
  /\ Len(selectedDates) < MaxSelected
  /\ IF dateToAdd # {} /\ dateToAdd \cap Range(selectedDates) = {}
     THEN LET added == CHOOSE d \in dateToAdd : TRUE
              newDates == SortList(Append(selectedDates, added))
          IN /\ selectedDates' = newDates
             /\ activeDate' = added
             /\ url' = Navigate(url,
                  ctxUpdateDatasetParamsCalls(url, viewType,
                    [NoNewParams EXCEPT !.dates = {newDates}]))
     ELSE UNCHANGED <<selectedDates, activeDate, url>>
  /\ events' = events + 1
  /\ lastOp' = Op("addDate")
  /\ UNCHANGED <<viewType, selectedModels, selectedLocation, availableDates,
                 mounted>>

InitDates == DatesInit /\ QuantIdle /\ PipeIdle /\ WriterIdle /\ LoadIdle

NextDates ==
  \/ (\E d \in 1..MaxAvailable : shiftLeft(d)) /\ UNCHANGED <<quantVars, pipeVars, writerVars, loadVars>>
  \/ (\E d \in 1..MaxAvailable : shiftRight(d)) /\ UNCHANGED <<quantVars, pipeVars, writerVars, loadVars>>
  \/ (\E d \in 1..MaxAvailable : removeDate(d)) /\ UNCHANGED <<quantVars, pipeVars, writerVars, loadVars>>
  \/ addDate /\ UNCHANGED <<quantVars, pipeVars, writerVars, loadVars>>

SpecDates == InitDates /\ [][NextDates]_vars

(***************************************************************************)
(* scripts/process_nc_model_data.R : convert_from_sample                   *)
(*                                                                         *)
(* Probabilities and values are integers of ten-thousandths.               *)
(***************************************************************************)
MaxDraws == 3
MaxDrawValue == 3

\* quantiles <- c(0.01, 0.025, seq(0.050, 0.9, 0.05), 0.95, 0.975, 0.99)
quantiles == <<100, 250>> \o [i \in 1..18 |-> 500 * i] \o <<9500, 9750, 9900>>

\* the whole number v read from a CSV cell, in ten-thousandths, and back
Fixed(v) == v * 10000
Whole(f) == f \div 10000

\* sort(x): the values of x, ascending. The element at position j goes to
\* the place given by the number of smaller elements and of equal ones up
\* to j.
sort(x) ==
  LET place(j) == Cardinality({k \in 1..Len(x) : x[k] < x[j]})
                  + Cardinality({k \in 1..j : x[k] = x[j]})
  IN [i \in 1..Len(x) |-> x[CHOOSE j \in 1..Len(x) : place(j) = i]]

\* the quantile without the interpolation step (R's types 1 to 3)
quantile_lower(x, prob) ==
  LET n == Len(x)
      index == 10000 + (n - 1) * prob
      lo == index \div 10000
  IN sort(x)[lo]

\* the quantile with the index counted from 0: index <- (n - 1) * probs
quantile_zero_based(x, prob) ==
  LET n == Len(x)
      index == (n - 1) * prob
      lo == IF index < 10000 THEN 1 ELSE index \div 10000
      hi == IF index % 10000 = 0 \/ index < 10000 THEN lo ELSE lo + 1
      h == IF index < 10000 THEN 0 ELSE index % 10000
      sorted == sort(x)
  IN (10000 - h) * Whole(sorted[lo]) + h * Whole(sorted[hi])

\* stats::quantile(x, prob, names = FALSE), the default type 7:
\*   index <- 1 + (n - 1) * probs; lo <- floor(index); hi <- ceiling(index)
\*   x <- sort(x); qs <- x[lo]; h <- index - lo
\*   qs <- (1 - h) * qs + h * x[hi]
\* x holds values in ten-thousandths that are whole numbers (the draws of
\* the hub files are counts), so both divisions are exact.
quantile(x, prob) ==
  LET n == Len(x)
      index == 10000 + (n - 1) * prob
      lo == index \div 10000
      hi == IF index % 10000 = 0 THEN lo ELSE lo + 1
      h == index % 10000
      sorted == sort(x)
  IN (10000 - h) * Whole(sorted[lo]) + h * Whole(sorted[hi])

\* convert_from_sample(grouped_model_out_tbl, new_output_type,
\* new_output_type_id) on one group: the reframe()d rows, one per
\* new_output_type_id. The script calls it with "quantile" only.
convert_from_sample(values, new_output_type, new_output_type_id) ==
  IF new_output_type = "quantile"
  THEN [i \in 1..Len(new_output_type_id) |->
          [output_type |-> new_output_type,
           output_type_id |-> new_output_type_id[i],
           value |-> quantile(values, new_output_type_id[i])]]
  ELSE <<>>

\* the sample vector 1..100
OneToHundred == [i \in 1..100 |-> i]

\* vectors of 100 draws: 1..100, 100..1, the values 1..100 out of order,
\* and draws that hold two values only, changing around the middle
HundredDraws ==
  {OneToHundred, [i \in 1..100 |-> 101 - i], [i \in 1..100 |-> (37 * i) % 101]}
  \cup {[i \in 1..100 |-> IF i <= k THEN 0 ELSE 2] : k \in 49..51}

\* the draws of one group: every short vector, and vectors of 100 draws
DrawVectors ==
  UNION {[1..n -> 0..MaxDrawValue] : n \in 1..MaxDraws} \cup HundredDraws

QuantInit ==
  /\ draws \in DrawVectors
  /\ qout = <<>>
  /\ qpc = "ready"

\* read_forecasts, line 75: the conversion of one group of sample rows
ConvertGroup ==
  /\ qpc = "ready"
  /\ qout' = convert_from_sample([i \in 1..Len(draws) |-> Fixed(draws[i])],
                                  "quantile", quantiles)
  /\ qpc' = "converted"
  /\ UNCHANGED draws

InitQuantile == QuantInit /\ UrlIdle /\ PipeIdle /\ WriterIdle /\ LoadIdle
NextQuantile == ConvertGroup /\ UNCHANGED <<urlVars, pipeVars, writerVars, loadVars>>
SpecQuantile == InitQuantile /\ [][NextQuantile]_vars

(***************************************************************************)
(* scripts/process_nc_model_data.R : the tables                            *)
(*                                                                         *)
(* A table is a set of rows. A row of a model-output table is the record   *)
(*   [model_id, reference_date, location, horizon, output_type,            *)
(*    output_type_id, value, n]                                            *)
(* where value / n is the number of the value column: n is 1 for a row read *)
(* from a file and the number of rows averaged for a row of the ensemble.  *)
(* The columns target and target_end_date are functions of the file and of *)
(* the horizon and are left out.                                           *)
(***************************************************************************)
MaxValue == 2

\* locs <- c("37000", "37", paste("NC", pathogen, target, sep = "_"))
locs == {"37000", "37", "NC_flu_hosp"}

\* one row of a CSV file (no model_id column yet)
CsvRow(date, loc, h, type, id, v) ==
  [reference_date |-> date, location |-> loc, horizon |-> h,
   output_type |-> type, output_type_id |-> id, value |-> Fixed(v)]

\* mutate(model_id = basename(dirname(file)))
WithModelId(r, m) ==
  [model_id |-> m, reference_date |-> r.reference_date, location |-> r.location,
   horizon |-> r.horizon, output_type |-> r.output_type,
   output_type_id |-> r.output_type_id, value |-> r.value, n |-> 1]

\* the grouping of line 75: group_by(horizon, target_end_date, location,
\* target, reference_date, model_id)
SameGroup(r1, r2) ==
  /\ r1.horizon = r2.horizon /\ r1.location = r2.location
  /\ r1.reference_date = r2.reference_date /\ r1.model_id = r2.model_id

\* the value column of one group of sample rows, in row order (the draw
\* number is the output_type_id of a sample row)
GroupValues(group) ==
  [i \in 1..Cardinality(group) |->
     (CHOOSE r \in group : r.output_type_id = i).value]

\* convert_from_sample(df %>% group_by(...), "quantile", quantiles): the
\* rows of every group, with the group's columns
ConvertTable(df) ==
  UNION { LET group == {r2 \in df : SameGroup(r, r2)}
              out == convert_from_sample(GroupValues(group), "quantile", quantiles)
          IN {[model_id |-> r.model_id, reference_date |-> r.reference_date,
               location |-> r.location, horizon |-> r.horizon,
               output_type |-> out[i].output_type,
               output_type_id |-> out[i].output_type_id,
               value |-> out[i].value, n |-> 1] : i \in 1..Len(out)}
        : r \in df }

\* the output_type that line 73 sends to the converter
SampleOnlyType == "samples"

\* read_forecasts(file): the table it returns; {} is the tibble without
\* columns that bind_rows() makes of no rows.
read_forecasts(file) ==
  LET modeloutput == {WithModelId(r, file.model) : r \in file.rows}
      kept == {r \in modeloutput :
                 /\ r.location \in locs
                 /\ ~(r.model_id = "UNC_IDD-InfluPaint" /\ r.location = "37")}
      df == {[r EXCEPT !.location = "37"] : r \in kept}
      types == {r.output_type : r \in df}
  IN IF Cardinality(types) = 1 /\ types = {SampleOnlyType}
     THEN ConvertTable(df)
     ELSE df

\* round(output_type_id, 3)
round3(x) == ((x + 5) \div 10) * 10

\* the sum of the value column of a set of rows
RECURSIVE SumValues(_)
SumValues(rows) ==
  IF rows = {} THEN 0
  ELSE LET r == CHOOSE x \in rows : TRUE IN r.value + SumValues(rows \ {r})

\* the output types hubEnsembles::simple_ensemble accepts
EnsembleTypes == {"mean", "median", "quantile", "cdf", "pmf"}

\* group_by(task id columns, output_type, output_type_id)
SameEnsembleGroup(r1, r2) ==
  /\ r1.reference_date = r2.reference_date /\ r1.location = r2.location
  /\ r1.horizon = r2.horizon /\ r1.output_type = r2.output_type
  /\ r1.output_type_id = r2.output_type_id

\* agg_fun of simple_ensemble (the default, mean) on the rows of one group:
\* the sum and the number of values
agg_mean(group) == [value |-> SumValues(group), n |-> Cardinality(group)]

\* the mean with the models that miss the level counted as zeros
agg_mean_all_models(group, tbl) ==
  [value |-> SumValues(group),
   n |-> Cardinality({r.model_id : r \in tbl})]

\* the value column of one ensemble row, from its group
ensemble_value(group, tbl) == agg_mean(group)

\* hubEnsembles::simple_ensemble(tbl, model_id = model_id)
simple_ensemble(tbl, model_id) ==
  { LET group == {r2 \in tbl : SameEnsembleGroup(r, r2)}
        agg == ensemble_value(group, tbl)
    IN [model_id |-> model_id, reference_date |-> r.reference_date,
        location |-> r.location, horizon |-> r.horizon,
        output_type |-> r.output_type, output_type_id |-> r.output_type_id,
        value |-> agg.value, n |-> agg.n]
    : r \in tbl }

\* does simple_ensemble stop with an error: no rows, or an output type it
\* does not accept
\* line 230, round(output_type_id, 3): read_csv() reads output_type_id as
\* character in a file that lists pmf categories, and round() stops on a
\* character column
CharacterIds(tbl) == \E r \in tbl : r.output_type = "pmf"

simple_ensemble_fails(tbl) ==
  tbl = {} \/ \E r \in tbl : r.output_type \notin EnsembleTypes

\* the id of the ensemble fetched from the CDC hub, used for both
ClashingModelId == "Flusight-ensemble"

\* model_id = "simple-ensemble-mean"
EnsembleModelId == "simple-ensemble-mean"

\* mutate(model_id = "Flusight-ensemble")
FetchedModelId == "Flusight-ensemble"

\* lines 228-234: bind_rows, round the output_type_id, keep horizons 0:3
\* the tables bound without the rounding of line 230
combined_unrounded(tables) ==
  LET bound == UNION {tables[i] : i \in 1..Len(tables)}
  IN {r \in bound : r.horizon \in 0..3}

combined_model_outputs(tables) ==
  LET bound == UNION {tables[i] : i \in 1..Len(tables)}
      rounded == {[r EXCEPT !.output_type_id = round3(r.output_type_id)] : r \in bound}
  IN {r \in rounded : r.horizon \in 0..3}

\* write_csv_with_dir(data, file_path), as one step
WriteFile(dir, path, data) ==
  [p \in DOMAIN dir \cup {path} |-> IF p = path THEN data ELSE dir[p]]

(***************************************************************************)
(* scripts/process_nc_model_data.R : the inputs of a run                   *)
(***************************************************************************)
MaxRefDate == 2
RefDates == 1..MaxRefDate

\* a model-output file flu_modeloutput/<model>/<date>-<model>.csv; ok is
\* FALSE for a file read_csv() or the filters stop on
ModelFile(m, d, rows) == [model |-> m, date |-> d, ok |-> TRUE, rows |-> rows]
Malformed(m, d) == [model |-> m, date |-> d, ok |-> FALSE, rows |-> {}]

\* the rows every file carries for another state, which the filter drops
OtherStateRows(d) == {CsvRow(d, "01", 0, "quantile", 5000, 1)}

\* quantile rows of one location and horizon: lv is a set of
\* <<level, value>> pairs
QuantileRows(d, loc, h, lv) ==
  {CsvRow(d, loc, h, "quantile", p[1], p[2]) : p \in lv}

\* sample rows of one location and horizon, draws numbered from 1
SampleRows(d, loc, h, type, xs) ==
  {CsvRow(d, loc, h, type, i, xs[i]) : i \in 1..Len(xs)}

\* the level sets and values of a quantile forecast: non-decreasing in the
\* level, as the hub's validation demands of a submission
LevelValues ==
  {{<<2500, v>>} : v \in 0..MaxValue}
  \cup {{<<5000, v>>} : v \in 0..MaxValue}
  \cup {{<<2500, v>>, <<5000, w>>} : v \in 0..MaxValue, w \in 0..MaxValue}

MonotoneLevelValues ==
  {lv \in LevelValues : \A p \in lv, q \in lv : p[1] < q[1] => p[2] <= q[2]}

\* the contents a model's file can have in the detailed runs
RichContents(d) ==
  {QuantileRows(d, "37", 0, lv) \cup OtherStateRows(d) : lv \in MonotoneLevelValues}
  \cup {QuantileRows(d, loc, 0, {<<2500, 1>>, <<5000, 2>>}) \cup OtherStateRows(d) :
          loc \in {"37000", "NC_flu_hosp"}}
  \cup {QuantileRows(d, "37", h, {<<2500, 1>>, <<5000, 2>>}) \cup OtherStateRows(d) :
          h \in {-1, 4}}
  \cup {QuantileRows(d, "37", -1, {<<5000, 1>>})
          \cup QuantileRows(d, "37", 0, {<<5000, 2>>})}
  \cup {OtherStateRows(d)}
  \cup {SampleRows(d, "37", 0, type, <<2, 0>>) : type \in {"sample", "samples"}}
  \cup {SampleRows(d, "37", 0, "sample", <<2, 0>>)
          \cup QuantileRows(d, "37", 0, {<<5000, 1>>})}

\* the plain quantile file of a model
PlainRows(d) ==
  QuantileRows(d, "37", 0, {<<2500, 1>>, <<5000, 2>>}) \cup OtherStateRows(d)

\* the FluSight-ensemble file of the CDC hub for a date
RemoteRows(d) ==
  {CsvRow(d, loc, 0, "quantile", 5000, 2) : loc \in {"37", "US"}}

\* one date, two or three models, every kind of content
RichHubs ==
  { {ModelFile("modelA", 1, a)}
    \cup (IF b = {} THEN {} ELSE {ModelFile("modelB", 1, CHOOSE x \in b : TRUE)})
    \cup (IF c = "" THEN {}
          ELSE {ModelFile("UNC_IDD-InfluPaint", 1,
                          QuantileRows(1, c, 0, {<<2500, 0>>, <<5000, 2>>}))})
    : a \in RichContents(1),
      b \in {{}} \cup {{x} : x \in RichContents(1)},
      c \in {"", "37", "37000"} }

\* several dates, plain or malformed files
PlainHubs ==
  { UNION {
      (IF a[d] THEN {ModelFile("modelA", d, PlainRows(d))} ELSE {})
      \cup (CASE b[d] = "plain" -> {ModelFile("modelB", d, PlainRows(d))}
              [] b[d] = "malformed" -> {Malformed("modelB", d)}
              [] OTHER -> {}) : d \in RefDates }
    \cup (CASE e = "jhu" -> {ModelFile("JHU_IDD-hierarchSIM", 1, PlainRows(1))}
            [] e = "unc" -> {ModelFile("UNC_IDD-InfluPaint", MaxRefDate,
                               QuantileRows(MaxRefDate, "37000", 0, {<<5000, 0>>}))}
            [] OTHER -> {})
    : a \in [RefDates -> BOOLEAN],
      b \in [RefDates -> {"none", "plain", "malformed"}],
      e \in {"none", "jhu", "unc"} }

\* what the HEAD / read_csv of the remote ensemble file does
RemoteStates == {"ok", "missing", "unreadable", "unreachable"}

\* the ground-truth file: rows of (week, count); week 0 is the cutoff
TargetRows == {[date |-> d, value |-> v] : d \in {-1, 0, 1}, v \in 0..MaxValue}
PlainTarget == {[date |-> 0, value |-> 1], [date |-> 1, value |-> 2]}
RichTargets == {t \in SUBSET TargetRows : Cardinality(t) <= 2}

\* locations.csv
RegistryRow(loc, abbr, name, pop) ==
  [location |-> loc, abbreviation |-> abbr, location_name |-> name,
   population |-> pop]
Registries ==
  { {RegistryRow("37", "NC", "North Carolina", 2)},
    {RegistryRow("37", "NC", "North Carolina", 5),
     RegistryRow("US", "US", "US", 7)},
    {RegistryRow("US", "US", "US", 7)} }
PlainRegistry == {RegistryRow("37", "NC", "North Carolina", 5)}

\* line 175: the path of the target data file
TargetPath == <<"target-data", 0>>

\* the paths the script writes to: one per model directory and reference
\* date, and the target data file
OutputPaths ==
  {<<m, d>> : m \in {"modelA", "modelB", FetchedModelId, EnsembleModelId},
              d \in RefDates} \cup {TargetPath}

\* the categories of a pmf prediction ("decrease", "stable", "increase"),
\* numbered
PmfCategories == {1, 2, 3}

\* the probabilities a file gives to the categories it lists, in
\* ten-thousandths: files whose probabilities sum to 1 and files whose
\* probabilities do not
PmfTables ==
  {[c \in PmfCategories |-> 2500 * k[c]] : k \in {<<1, 2, 1>>, <<4, 0, 0>>}}
  \cup {[c \in {1, 2} |-> 5000]}
  \cup {[c \in PmfCategories |-> 2500 * k[c]] : k \in {<<1, 1, 1>>, <<2, 2, 1>>}}
  \cup {[c \in {1, 2} |-> 2500]}

\* pmf rows of one location and horizon
PmfRows(d, loc, h, prob) ==
  {[CsvRow(d, loc, h, "pmf", c, 0) EXCEPT !.value = prob[c]] :
     c \in DOMAIN prob}

\* quantile levels around 0.25 as files carry them, in ten-thousandths:
\* 0.25 itself and levels off by less than, or by more than, half a
\* thousandth (the exact halves, whose rounding depends on the binary
\* representation, are left out)
NoisyLevels == {2496, 2499, 2500, 2501, 2504, 2506}

\* what an earlier run left in the output directory: nothing, the file of
\* a model whose file has since left flu_modeloutput, or an older version
\* of a file this run writes again
PreviousOutputs ==
  {<<>>,
   WriteFile(<<>>, <<"modelOld", 1>>,
             read_forecasts(ModelFile("modelOld", 1, PlainRows(1)))),
   WriteFile(<<>>, <<"modelA", 1>>,
             read_forecasts(ModelFile("modelA", 1,
                                      QuantileRows(1, "37", 0, {<<5000, 0>>}))))}

PipeInit ==
  /\ \/ /\ hub \in RichHubs
        /\ remote \in {[d \in RefDates |-> r] : r \in {"ok", "missing"}}
        /\ rawTarget = PlainTarget /\ loc_dic = PlainRegistry
        /\ unwritable = {} /\ outdir = <<>>
     \/ /\ hub \in PlainHubs
        /\ remote \in {[d \in RefDates |-> r] : r \in {"ok", "missing"}}
        /\ rawTarget = PlainTarget /\ loc_dic = PlainRegistry
        /\ unwritable = {} /\ outdir = <<>>
     \/ /\ hub = {ModelFile(m, d, PlainRows(d)) :
                    m \in {"modelA", "modelB"}, d \in RefDates}
        /\ remote \in [RefDates -> RemoteStates]
        /\ rawTarget = PlainTarget /\ loc_dic = PlainRegistry
        /\ unwritable = {} /\ outdir = <<>>
     \/ /\ hub = {ModelFile("modelA", 1, PlainRows(1))}
        /\ remote = [d \in RefDates |-> "ok"]
        /\ rawTarget \in RichTargets /\ loc_dic \in Registries
        /\ unwritable = {} /\ outdir = <<>>
     \/ /\ hub = {ModelFile(m, d, PlainRows(d)) :
                    m \in {"modelA", "modelB"}, d \in RefDates}
        /\ remote = [d \in RefDates |-> "ok"]
        /\ rawTarget = PlainTarget /\ loc_dic = PlainRegistry
        /\ unwritable \in {{p} : p \in OutputPaths} /\ outdir = <<>>
     \/ /\ hub = {ModelFile("modelA", 1, PlainRows(1))}
        /\ remote \in {[d \in RefDates |-> r] : r \in {"ok", "missing"}}
        /\ rawTarget = PlainTarget /\ loc_dic = PlainRegistry
        /\ unwritable = {} /\ outdir \in PreviousOutputs
     \/ /\ hub \in {{ModelFile("modelA", 1,
                                QuantileRows(1, "37", 0, {<<a, 1>>})),
                      ModelFile("modelB", 1,
                                QuantileRows(1, "37", 0, {<<b, 2>>}))} :
                     a \in NoisyLevels, b \in NoisyLevels}
        /\ remote = [d \in RefDates |-> "missing"]
        /\ rawTarget = PlainTarget /\ loc_dic = PlainRegistry
        /\ unwritable = {} /\ outdir = <<>>
     \/ /\ hub \in {{ModelFile("modelA", 1,
                                PmfRows(1, "37", 0, prob) \cup q)} :
                     prob \in PmfTables,
                     q \in {{}, QuantileRows(1, "37", 0, {<<5000, 1>>})}}
        /\ remote = [d \in RefDates |-> "missing"]
        /\ rawTarget = PlainTarget /\ loc_dic = PlainRegistry
        /\ unwritable = {} /\ outdir = <<>>
  /\ pc = "main"
  /\ idx = 1
  /\ model_outputs = <<>>
  /\ target_data = {}
  /\ ensInputs = <<>>

(***************************************************************************)
(* scripts/process_nc_model_data.R : the steps of a run                    *)
(***************************************************************************)
\* the order list.files() returns the model directories in
ModelOrder ==
  <<"JHU_IDD-hierarchSIM", "UNC_IDD-InfluPaint", "modelA", "modelB">>

\* the date that stands for 2025-03-22 in the file names
ExcludedDate == 2

FileAt(h, m, d) == CHOOSE f \in h : f.model = m /\ f.date = d

\* list.files("flu_modeloutput", recursive = TRUE, full.names = TRUE)
list_files(h) ==
  LET slots == [i \in 1..(Len(ModelOrder) * MaxRefDate) |->
                  <<ModelOrder[((i - 1) \div MaxRefDate) + 1],
                    ((i - 1) % MaxRefDate) + 1>>]
      present == SelectSeq(slots,
                   LAMBDA s : \E f \in h : f.model = s[1] /\ f.date = s[2])
  IN [i \in 1..Len(present) |-> FileAt(h, present[i][1], present[i][2])]

\* lines 111-112: the files the first loop leaves out
Excluded(f) ==
  \/ f.model = "JHU_IDD-hierarchSIM"
  \/ f.date = ExcludedDate /\ f.model = "UNC_IDD-InfluPaint"

output_files(h) == SelectSeq(list_files(h), LAMBDA f : ~Excluded(f))

\* unique(str_extract(output_files, date)): first occurrences, in order
forecast_dates(h) ==
  LET files == output_files(h)
      firsts == SelectSeq([i \in 1..Len(files) |-> i],
                  LAMBDA i : \A j \in 1..(i - 1) : files[j].date # files[i].date)
  IN [i \in 1..Len(firsts) |-> files[firsts[i]].date]

\* extract_csv_files_by_date(list.files(...), i)
extract_csv_files_by_date(h, i) ==
  SelectSeq(list_files(h), LAMBDA f : f.date = i)

\* does the body of the first loop stop the script on this file: the file
\* cannot be read, nothing is left of it for the filter on horizon, or
\* nothing is left to name the output file after
MainLoopStops(file) ==
  \/ ~file.ok
  \/ read_forecasts(file) = {}
  \/ {r \in read_forecasts(file) : r.horizon # -1} = {}

\* lines 115-123, one iteration
MainLoopStep ==
  /\ pc = "main"
  /\ idx <= Len(output_files(hub))
  /\ LET file == output_files(hub)[idx] IN
       IF MainLoopStops(file) \/ <<file.model, file.date>> \in unwritable
       THEN /\ pc' = "aborted"
            /\ UNCHANGED <<idx, outdir>>
       ELSE LET modeloutput == {r \in read_forecasts(file) : r.horizon # -1}
                new_filename == <<file.model, file.date>>
            IN /\ outdir' = WriteFile(outdir, new_filename, modeloutput)
               /\ idx' = idx + 1
               /\ pc' = "main"
  /\ UNCHANGED <<hub, remote, rawTarget, loc_dic, unwritable, model_outputs, target_data,
                 ensInputs>>

\* filter(date >= "2023-09-01"): week 0 stands for the cutoff
TargetCutoff == 0

\* line 171
weekly_rate(value, population) == [num |-> value, den |-> population]

\* lines 159-172: the rows of the target file that are written
process_target_data(raw, registry) ==
  { LET matches == {l \in registry :
                      /\ l.abbreviation = "NC" /\ l.location = "37"
                      /\ l.location_name = "North Carolina"}
    IN [date |-> t.date, location |-> "37", abbreviation |-> "NC",
        location_name |-> "North Carolina", value |-> t.value,
        weekly_rate |-> IF matches = {} THEN [num |-> 0, den |-> 0]
                        ELSE weekly_rate(t.value,
                                         (CHOOSE l \in matches : TRUE).population)]
    : t \in {t \in raw : t.date >= TargetCutoff} }

\* lines 127-175: forecast_dates and the target data; the script stops when
\* the file cannot be written
ProcessTargetData ==
  /\ pc = "main"
  /\ idx > Len(output_files(hub))
  /\ IF TargetPath \in unwritable
     THEN /\ pc' = "aborted"
          /\ UNCHANGED <<target_data, idx>>
     ELSE /\ target_data' = process_target_data(rawTarget, loc_dic)
          /\ idx' = 1
          /\ pc' = IF Len(forecast_dates(hub)) = 0 THEN "done" ELSE "fetch"
  /\ UNCHANGED <<hub, remote, rawTarget, loc_dic, unwritable, model_outputs, outdir,
                 ensInputs>>

\* lines 180-204, for one date
FetchEnsemble ==
  /\ pc = "fetch"
  /\ idx <= Len(forecast_dates(hub))
  /\ LET i == forecast_dates(hub)[idx]
         flu_ensemble == {WithModelId(r, FetchedModelId) :
                            r \in {r \in RemoteRows(i) : r.location = "37"}}
         new_filename == <<FetchedModelId, i>>
     IN /\ outdir' = IF remote[i] = "ok" /\ new_filename \notin unwritable
                     THEN WriteFile(outdir, new_filename, flu_ensemble)
                     ELSE outdir
        /\ IF remote[i] = "unreachable"
           THEN pc' = "aborted" /\ idx' = idx
           ELSE IF idx = Len(forecast_dates(hub))
                THEN pc' = "ensemble" /\ idx' = 1
                ELSE pc' = "fetch" /\ idx' = idx + 1
  /\ UNCHANGED <<hub, remote, rawTarget, loc_dic, unwritable, model_outputs, target_data,
                 ensInputs>>

\* line 225: lapply(model_outputs_files, read_forecasts), one file
EnsReadFile ==
  /\ pc = "ensemble"
  /\ LET files == extract_csv_files_by_date(hub, forecast_dates(hub)[idx])
     IN /\ Len(model_outputs) < Len(files)
        /\ LET file == files[Len(model_outputs) + 1] IN
             IF file.ok
             THEN /\ model_outputs' = Append(model_outputs,
                                             [model |-> file.model,
                                              tbl |-> read_forecasts(file)])
                  /\ pc' = pc
             ELSE /\ pc' = "aborted"
                  /\ UNCHANGED model_outputs
  /\ UNCHANGED <<hub, remote, rawTarget, loc_dic, unwritable, idx, outdir, target_data,
                 ensInputs>>

\* some file of the date is read
SomeRead(files, tables) == Len(tables) >= 1

\* the lapply of line 225 has returned: every file of the date is read
AllRead(files, tables) == Len(tables) = Len(files)

\* lines 228-246, for one date
EnsBuild ==
  /\ pc = "ensemble"
  /\ LET i == forecast_dates(hub)[idx]
         files == extract_csv_files_by_date(hub, i)
         tables == [j \in 1..Len(model_outputs) |-> model_outputs[j].tbl]
         combined == combined_model_outputs(tables)
     IN /\ AllRead(files, model_outputs)
        /\ IF \/ (UNION {tables[j] : j \in 1..Len(tables)}) = {}
              \/ CharacterIds(UNION {tables[j] : j \in 1..Len(tables)})
              \/ simple_ensemble_fails(combined)
              \/ <<EnsembleModelId, i>> \in unwritable
           THEN /\ pc' = "aborted"
                /\ UNCHANGED <<idx, outdir, ensInputs, model_outputs>>
           ELSE /\ outdir' = WriteFile(outdir, <<EnsembleModelId, i>>,
                                       simple_ensemble(combined, EnsembleModelId))
                /\ ensInputs' = WriteFile(ensInputs, i,
                                   {model_outputs[j].model :
                                      j \in 1..Len(model_outputs)})
                /\ model_outputs' = <<>>
                /\ IF idx = Len(forecast_dates(hub))
                   THEN pc' = "done" /\ idx' = idx
                   ELSE pc' = "ensemble" /\ idx' = idx + 1
  /\ UNCHANGED <<hub, remote, rawTarget, loc_dic, unwritable, target_data>>

InitPipeline == PipeInit /\ UrlIdle /\ QuantIdle /\ WriterIdle /\ LoadIdle

NextPipeline ==
  \/ MainLoopStep /\ UNCHANGED <<urlVars, quantVars, writerVars, loadVars>>
  \/ ProcessTargetData /\ UNCHANGED <<urlVars, quantVars, writerVars, loadVars>>
  \/ FetchEnsemble /\ UNCHANGED <<urlVars, quantVars, writerVars, loadVars>>
  \/ EnsReadFile /\ UNCHANGED <<urlVars, quantVars, writerVars, loadVars>>
  \/ EnsBuild /\ UNCHANGED <<urlVars, quantVars, writerVars, loadVars>>

SpecPipeline == InitPipeline /\ [][NextPipeline]_vars

(***************************************************************************)
(* scripts/process_nc_model_data.R : write_csv_with_dir and a reader       *)
(***************************************************************************)
MaxRows == 2

\* the tables to write: up to MaxRows rows, a row standing for its value
Tables == UNION {[1..n -> 0..MaxValue] : n \in 0..MaxRows}

\* the lines write_csv() puts in the file: the header, then the rows
HeaderLine == [header |-> TRUE, value |-> 0]
csv_lines(data) ==
  <<HeaderLine>> \o [i \in 1..Len(data) |-> [header |-> FALSE, value |-> data[i]]]

\* the complete file of a table
CsvFile(data) == [exists |-> TRUE, lines |-> csv_lines(data)]

WriterInit ==
  /\ wdata \in Tables
  /\ wprev \in {NoFile} \cup {CsvFile(t) : t \in Tables}
  /\ wdir \in {b \in BOOLEAN : wprev.exists => b}
  /\ wfile = wprev
  /\ wpc = "mkdir"
  /\ reads = {}

\* lines 88-93: create the directory if it is not there
WriterMkdir ==
  /\ wpc = "mkdir"
  /\ wdir' = TRUE
  /\ wpc' = "open"
  /\ UNCHANGED <<wdata, wprev, wfile, reads>>

\* line 96, write_csv(data, file_path): the file is opened for writing at
\* file_path itself, which creates it or empties it
WriterOpen ==
  /\ wpc = "open"
  /\ wfile' = [exists |-> TRUE, lines |-> <<>>]
  /\ wpc' = "write"
  /\ UNCHANGED <<wdata, wprev, wdir, reads>>

\* line 96: the next line goes to the file
WriterWriteLine ==
  /\ wpc = "write"
  /\ Len(wfile.lines) < Len(csv_lines(wdata))
  /\ wfile' = [wfile EXCEPT !.lines =
                 Append(@, csv_lines(wdata)[Len(wfile.lines) + 1])]
  /\ UNCHANGED <<wdata, wprev, wdir, wpc, reads>>

\* line 96: all lines are out, the file is closed
WriterClose ==
  /\ wpc = "write"
  /\ Len(wfile.lines) = Len(csv_lines(wdata))
  /\ wpc' = "closed"
  /\ UNCHANGED <<wdata, wprev, wdir, wfile, reads>>

\* another process reads file_path, at any moment
ReaderRead ==
  /\ wpc # "idle"
  /\ wfile \notin reads
  /\ reads' = reads \cup {wfile}
  /\ UNCHANGED <<wdata, wprev, wdir, wfile, wpc>>

InitWriter == WriterInit /\ UrlIdle /\ QuantIdle /\ PipeIdle /\ LoadIdle

NextWriter ==
  \/ WriterMkdir /\ UNCHANGED <<urlVars, quantVars, pipeVars, loadVars>>
  \/ WriterOpen /\ UNCHANGED <<urlVars, quantVars, pipeVars, loadVars>>
  \/ WriterWriteLine /\ UNCHANGED <<urlVars, quantVars, pipeVars, loadVars>>
  \/ WriterClose /\ UNCHANGED <<urlVars, quantVars, pipeVars, loadVars>>
  \/ ReaderRead /\ UNCHANGED <<urlVars, quantVars, pipeVars, loadVars>>

SpecWriter == InitWriter /\ [][NextWriter]_vars

(***************************************************************************)
(* Claims about the view / URL state                                       *)
(***************************************************************************)
\* the last handler switched the view between two configured datasets
SwitchedDataset ==
  /\ lastOp.op = "handleViewChange"
  /\ ~lastOp.threw
  /\ getDatasetFromView(lastOp.from) # NullDataset
  /\ getDatasetFromView(lastOp.to) # NullDataset
  /\ getDatasetFromView(lastOp.from) # getDatasetFromView(lastOp.to)

\* C9: after the view is switched between two different datasets the URL
\* holds no parameter of the old dataset, its view parameter is the new
\* view, and the selected dates, selected models and active date are cleared.
C9_SwitchClearsOldDataset ==
  SwitchedDataset =>
    LET old == getDatasetFromView(lastOp.from)
    IN /\ url[DatesParam(old.prefix)] = {}
       /\ url[ModelsParam(old.prefix)] = {}
       /\ (old.shortName = "nhsn" => url["nhsn_columns"] = {})
       /\ url["view"] = {lastOp.to}
       /\ selectedDates = <<>>
       /\ selectedModels = <<>>
       /\ activeDate = NullDate

SwitchWithinDataset ==
  /\ events' = events + 1
  /\ lastOp'.op = "handleViewChange"
  /\ lastOp'.from # lastOp'.to
  /\ getDatasetFromView(lastOp'.from) # NullDataset
  /\ getDatasetFromView(lastOp'.from) = getDatasetFromView(lastOp'.to)

\* C11: a switch between two views of one dataset changes the view
\* parameter and nothing else in the URL (location, <prefix>_dates and
\* <prefix>_models keep their values), and leaves the selected dates, the
\* selected models and the active date as they were.
C11_SwitchWithinDatasetPreserves ==
  [][SwitchWithinDataset =>
       /\ url' = [url EXCEPT !["view"] = {lastOp'.to}]
       /\ viewType' = lastOp'.to
       /\ selectedDates' = selectedDates
       /\ selectedModels' = selectedModels
       /\ activeDate' = activeDate
       /\ selectedLocation' = selectedLocation]_vars

\* fludetailed was switched to flutimeseries with flu parameters in the
\* URL and a selection in the state
C11_Witness ==
  /\ lastOp.op = "handleViewChange"
  /\ lastOp.from = "fludetailed" /\ lastOp.to = "flutimeseries"
  /\ viewType = "flutimeseries"
  /\ url["view"] = {"flutimeseries"}
  /\ url["flu_dates"] # {} /\ url["flu_models"] # {}
  /\ url["location"] = {"NC"}
  /\ selectedDates # <<>>

\* does a parameter name carry the dataset's prefix (`${prefix}_...`)
CarriesPrefix(name, prefix) ==
  CASE prefix = "flu" -> name \in {"flu_dates", "flu_models"}
    [] prefix = "rsv" -> name \in {"rsv_dates", "rsv_models"}
    [] prefix = "nhsn" -> name \in {"nhsn_dates", "nhsn_models", "nhsn_columns"}
    [] OTHER -> FALSE

\* C12: no call of clearDatasetParams, updateDatasetParams,
\* handleViewChange or updateViewParam changes the location parameter, and
\* a call of clearDatasetParams or updateDatasetParams changes no parameter
\* but those that carry the prefix of the dataset it was given (so not the
\* view parameter).
C12_LocationAndViewPreserved ==
  [][/\ url'["location"] = url["location"]
     /\ lastOp'.op \in {"clearDatasetParams", "updateDatasetParams"} =>
          \A n \in ParamNames :
            url'[n] # url[n] => CarriesPrefix(n, lastOp'.from)]_vars

\* calls of the manager that changed a dataset's parameters, with view and
\* location in the URL
C12_Witness ==
  /\ events = MaxEvents
  /\ lastOp.op = "clearDatasetParams" /\ lastOp.from = "flu"
  /\ url["location"] = {"NC"}
  /\ url["view"] = {"rsvdetailed"}
  /\ url["flu_dates"] = {} /\ url["rsv_dates"] = {<<MaxDate>>}

\* C13: when the app is opened with a location and no view in the URL,
\* the first render leaves the view state at fludetailed, keeps the URL's
\* location, and the location selected in the app is the URL's location.
C13_InitPreservesLocation ==
  [][(~mounted /\ mounted' /\ url["view"] = {} /\ url["location"] # {}) =>
       /\ viewType' = "fludetailed"
       /\ url'["location"] = url["location"]
       /\ url'["location"] = {selectedLocation'}]_vars

\* the dates and models of the opening URL that the loaded file holds
ValidUrlDates ==
  FilterIncluded(SplitParam(url, "dates"), SortedDates(fvFile.dates))
ValidUrlModels ==
  FilterIncluded(SplitParam(url, "models"), SortedModels(fvFile.models))

\* config/datasets.js: the default model of the dataset of the view
DatasetDefaultModel(view) == getDatasetFromView(view).defaultModel

\* C14: once a flu or RSV view has loaded a file holding dates and models,
\* with no valid dates or models in the URL, the most recent date is the
\* only selected date, and the dataset's default ensemble model
\* (FluSight-ensemble for flu, hub-ensemble for RSV), when the file holds
\* it, is the only selected model.
C14_DefaultsOnLoad ==
  (/\ fvPc = "selected" /\ (isRSV => rsvPc = "done")
   /\ fvFile.dates # {} /\ fvFile.models # <<>>
   /\ ValidUrlDates = <<>> /\ ValidUrlModels = <<>>) =>
     LET dates == SortedDates(fvFile.dates)
         shown == IF isRSV THEN rsvSelectedModels ELSE selectedModels
     IN /\ selectedDates = <<dates[Len(dates)]>>
        /\ \A m \in DatasetDefaultModel(viewType) :
             m \in Range(fvFile.models) => shown = <<m>>

\* the URL parameter param shows the list: its value is the joined list,
\* or it is absent and the list is empty
Mirrors(param, list) == param = {Join(list)} \/ (param = {} /\ list = <<>>)

\* C23: in a view of a dataset with selectors, after the context's setters
\* were called (one call in an event, or two calls in one run of an
\* effect), <prefix>_dates shows the selected dates and <prefix>_models
\* shows the selected models.
C23_UrlMirrorsState ==
  LET prefix == getDatasetFromView(viewType).prefix
  IN /\ Mirrors(url[DatesParam(prefix)], selectedDates)
     /\ Mirrors(url[ModelsParam(prefix)], selectedModels)

\* every fetch is answered and no effect is pending
RaceSettled == fvInFlight = EmptyBag /\ fvEffects = {}

\* the file of the location and view on screen
RequestedFile ==
  FetchId(Fetch(selectedLocation, viewType, selectedModels, url))

\* C24: once every fetch has settled, loading is off and the data and the
\* error shown, whichever is set, are those of the file of the location and
\* view requested last; the response of a superseded fetch is not on
\* screen.
C24_LatestRequestShown ==
  RaceSettled =>
    /\ ~fvLoading
    /\ fvData # NoFetch \/ fvError # NoFetch
    /\ fvData # NoFetch => fvData = RequestedFile
    /\ fvError # NoFetch => fvError = RequestedFile

\* strictly ascending, hence distinct, and all of them available
GoodDates(list, available) ==
  /\ \A i \in 1..Len(list), j \in 1..Len(list) : i < j => list[i] < list[j]
  /\ Range(list) \subseteq Range(available)

\* C27: after every operation of the date selector the selected dates are
\* distinct, ascending and available, and a shift changes the shifted date
\* only: every other selected date keeps its place in the list, so the
\* shifted date has not reached or passed one.
C27_DatesStayOrdered ==
  [][/\ GoodDates(selectedDates', availableDates')
     /\ lastOp'.op \in {"shiftLeft", "shiftRight"} /\ events' # events =>
          /\ Len(selectedDates') = Len(selectedDates)
          /\ \A j \in 1..Len(selectedDates) :
                selectedDates[j] # lastOp'.from =>
                  selectedDates'[j] = selectedDates[j]]_vars

\* a left arrow has moved a date that has a selected date before it
C27_Witness ==
  /\ lastOp.op = "shiftLeft" /\ activeDate = lastOp.from - 1
  /\ activeDate \in Range(selectedDates)
  /\ lastOp.from \notin Range(selectedDates)
  /\ IndexOf(selectedDates, activeDate) > 1

\* C28: the number of selected dates stays between one and five.
C28_BetweenOneAndFive == Len(selectedDates) \in 1..MaxSelected

\* the second of two dates was removed, then dates were added up to five
C28_Witness ==
  /\ lastOp.op = "addDate" /\ Len(selectedDates) = MaxSelected
  /\ events = MaxEvents
  /\ Range(availableDates) \ Range(selectedDates) # {}

\* C29: the active date is one of the selected dates after every operation
\* of the date selector.
C29_ActiveDateIsSelected == activeDate \in Range(selectedDates)

\* the date Add Date is described to add: the available date following the
\* latest selected one, or with the last available date selected the
\* available date preceding the earliest selected one, as a set
NextToAdd ==
  LET sel == Range(selectedDates)
      avail == Range(availableDates)
      latest == CHOOSE d \in sel : \A e \in sel : e <= d
      earliest == CHOOSE d \in sel : \A e \in sel : d <= e
      after == {d \in avail : d > latest}
      before == {d \in avail : d < earliest}
  IN IF after # {} THEN {d \in after : \A e \in after : d <= e}
     ELSE {d \in before : \A e \in before : e <= d}

\* C30: pressed with fewer than five dates selected and an available date
\* not selected, Add Date adds exactly one date, the one described, and
\* makes it the active date.
C30_AddAlwaysAdds ==
  [][/\ lastOp'.op = "addDate" /\ events' # events
     /\ Len(selectedDates) < MaxSelected
     /\ Range(availableDates) \ Range(selectedDates) # {}
     => /\ Len(selectedDates') = Len(selectedDates) + 1
        /\ Range(selectedDates') \ Range(selectedDates) = NextToAdd
        /\ {activeDate'} = NextToAdd]_vars

\* C26: a call of the manager's handleViewChange(oldView, newView) does
\* not throw and leaves newView as the 'view' parameter, for every old view,
\* also one that names no dataset.
C26_ViewChangeCompletes ==
  lastOp.op = "handleViewChange" =>
    ~lastOp.threw /\ url["view"] = {lastOp.to}

\* C25: a context setter called with a function of the previous selection
\* (the model toggle, the remove button of a date) completes without an
\* error, leaves the function applied to the previous selection as the
\* state, and writes the resulting list to the dataset's URL parameter.
C25_UpdaterFormAccepted ==
  [][/\ lastOp'.op = "toggleModelSelection" /\ events' # events =>
          /\ ~lastOp'.threw
          /\ selectedModels' = ToggleModel(lastOp'.to, selectedModels)
          /\ Mirrors(url'[ModelsParam(getDatasetFromView(viewType).prefix)],
                     selectedModels')
     /\ lastOp'.op = "removeDate" /\ events' # events =>
          /\ ~lastOp'.threw
          /\ selectedDates' = FilterOut(lastOp'.to, selectedDates)
          /\ Mirrors(url'[DatesParam(getDatasetFromView(viewType).prefix)],
                     selectedDates')]_vars

(***************************************************************************)
(* Claims about the sample to quantile conversion                          *)
(***************************************************************************)
\* the k-th smallest of the draws xs, by counting
OrderStat(xs, k) ==
  CHOOSE v \in Range(xs) :
    /\ Cardinality({i \in 1..Len(xs) : xs[i] < v}) < k
    /\ k <= Cardinality({i \in 1..Len(xs) : xs[i] <= v})

\* v (ten-thousandths) is the inclusive empirical quantile of the whole
\* numbers xs at level p (ten-thousandths): the point at p of the polygon
\* through ((k-1)/(n-1), k-th order statistic), k = 1..n
IsInclusiveQuantile(xs, p, v) ==
  LET n == Len(xs)
  IN IF n = 1 THEN v = 10000 * xs[1]
     ELSE \E k \in 1..(n - 1) :
            /\ (k - 1) * 10000 <= (n - 1) * p
            /\ (n - 1) * p <= k * 10000
            /\ v = 10000 * OrderStat(xs, k)
                   + ((n - 1) * p - (k - 1) * 10000)
                     * (OrderStat(xs, k + 1) - OrderStat(xs, k))

\* C5: for a non-empty vector of draws and the ascending level grid the
\* converter returns exactly one value per level, the inclusive
\* linear-interpolation quantile of the sorted draws, also with fewer draws
\* than levels; for the draws 1..100 the value at level 0.5 is 50.5.
C5_InclusiveQuantile ==
  qpc = "converted" =>
    /\ Len(qout) = Len(quantiles)
    /\ \A i \in 1..Len(quantiles) :
         /\ qout[i].output_type = "quantile"
         /\ qout[i].output_type_id = quantiles[i]
         /\ IsInclusiveQuantile(draws, quantiles[i], qout[i].value)
    /\ (draws = OneToHundred =>
          \E i \in 1..Len(qout) :
            qout[i].output_type_id = 5000 /\ qout[i].value = 505000)

\* fewer draws than levels, out of order and with a repeated value
C5_Witness ==
  /\ qpc = "converted"
  /\ Len(draws) = 3
  /\ Len(draws) < Len(quantiles)
  /\ draws[1] > draws[2] /\ draws[2] = draws[3]
  /\ Len(qout) = Len(quantiles)

\* the value the converter returned at level 0.5
MedianOut == (CHOOSE i \in 1..Len(qout) : qout[i].output_type_id = 5000)

\* C21 as stated: for 100 draws, the value derived at level 0.5 lies
\* between the 49th and the 50th order statistic of the draws.
C21_MedianBetween49And50 ==
  (qpc = "converted" /\ Len(draws) = 100) =>
    /\ Fixed(OrderStat(draws, 49)) <= qout[MedianOut].value
    /\ qout[MedianOut].value <= Fixed(OrderStat(draws, 50))

\* C21 amended: for 100 draws, the value derived at level 0.5 is the
\* midpoint of the 50th and the 51st order statistic of the draws, and so
\* lies between them.
C21_MedianBetween50And51 ==
  (qpc = "converted" /\ Len(draws) = 100) =>
    /\ Fixed(OrderStat(draws, 50)) <= qout[MedianOut].value
    /\ qout[MedianOut].value <= Fixed(OrderStat(draws, 51))
    /\ 2 * qout[MedianOut].value
         = Fixed(OrderStat(draws, 50)) + Fixed(OrderStat(draws, 51))

\* 100 draws out of order whose 50th and 51st order statistics differ,
\* converted
C21_Witness ==
  /\ qpc = "converted" /\ Len(draws) = 100
  /\ draws[1] > draws[2]
  /\ OrderStat(draws, 50) < OrderStat(draws, 51)
  /\ qout[MedianOut].value = 505000

(***************************************************************************)
(* Claims about the processing script                                      *)
(***************************************************************************)
\* the files written under the id of the computed ensemble
EnsemblePaths == {p \in DOMAIN outdir : p[1] = EnsembleModelId}

\* what the models of a reference date emit: the table of each readable file
ModelRows(d) == UNION {read_forecasts(f) : f \in {f \in hub : f.date = d /\ f.ok}}

\* the rows of the models that reported the level of the ensemble row e
Reported(e) ==
  {r \in ModelRows(e.reference_date) :
     /\ r.location = e.location /\ r.horizon = e.horizon
     /\ r.output_type = e.output_type
     /\ round3(r.output_type_id) = e.output_type_id}

PopulationOf(loc) ==
  {l.population : l \in {l \in loc_dic : l.location = loc}}

\* C3: every written ground-truth row carries the rate
\* value / population * 100000, with the population of the row's location
\* in the registry.
C3_RatePer100k ==
  \A t \in target_data :
    /\ t.weekly_rate.den # 0
    /\ \E pop \in PopulationOf(t.location) :
         t.weekly_rate.num * pop = t.value * 100000 * t.weekly_rate.den

\* the rows of a file as they are passed through: the North Carolina rows
\* under the state's code, without the horizon -1
DeclaredRows(f) ==
  {[WithModelId(r, f.model) EXCEPT !.location = "37"] :
     r \in {r \in f.rows :
              /\ r.location \in locs
              /\ ~(f.model = "UNC_IDD-InfluPaint" /\ r.location = "37")
              /\ r.horizon # -1}}

\* C4: the file written for a model file that declares only the output
\* type "sample" holds quantile rows at the levels of the grid, and the
\* file written for a model file that declares quantile rows, alone or
\* next to sample rows, holds its declared rows.
C4_SampleFilesAreConverted ==
  \A f \in hub :
    (f.ok /\ ~Excluded(f) /\ <<f.model, f.date>> \in DOMAIN outdir) =>
      IF {r.output_type : r \in f.rows} = {"sample"}
      THEN /\ outdir[<<f.model, f.date>>] # {}
           /\ \A r \in outdir[<<f.model, f.date>>] :
                /\ r.output_type = "quantile"
                /\ r.output_type_id \in Range(quantiles)
      ELSE "quantile" \in {r.output_type : r \in f.rows} =>
             outdir[<<f.model, f.date>>] = DeclaredRows(f)

\* C7: the ensemble of a reference date is computed from all the files of
\* that date: when it is built every model file of the date has been read,
\* and a run in which a file of the date cannot be read builds no ensemble
\* for it.
C7_EnsembleAfterAllModels ==
  /\ \A p \in EnsemblePaths : p[2] \in DOMAIN ensInputs
  /\ \A d \in DOMAIN ensInputs :
       /\ ensInputs[d] = {f.model : f \in {f \in hub : f.date = d}}
       /\ \A f \in hub : f.date = d => f.ok

\* an ensemble built from two models' files
C7_Witness ==
  \E d \in DOMAIN ensInputs :
    /\ Cardinality(ensInputs[d]) >= 2
    /\ <<EnsembleModelId, d>> \in DOMAIN outdir

\* the file fetched for a date, as written
FetchedFile(d) ==
  {WithModelId(r, FetchedModelId) : r \in {r \in RemoteRows(d) : r.location = "37"}}

\* the dates whose remote ensemble was fetched and written
FetchedDates ==
  IF pc \in {"ensemble", "done"}
  THEN {d \in Range(forecast_dates(hub)) :
          remote[d] = "ok" /\ <<FetchedModelId, d>> \notin unwritable}
  ELSE {}

C15_FetchFailureSkipsDate ==
  [][pc = "fetch" =>
       /\ pc' \in {"fetch", "ensemble"}
       /\ remote[forecast_dates(hub)[idx]] # "ok" => outdir' = outdir]_vars

\* C16: a malformed model-output file never aborts the run.  In the main
\* loop it is skipped: nothing is written for it and the loop goes on to
\* the next file.  In the ensemble step the read of a malformed file does
\* not stop the step.
C16_MalformedFileIsSkipped ==
  [][/\ (/\ pc = "main" /\ idx <= Len(output_files(hub))
         /\ ~output_files(hub)[idx].ok) =>
           (pc' = "main" /\ idx' = idx + 1 /\ outdir' = outdir)
     /\ (/\ pc = "ensemble"
         /\ LET files == extract_csv_files_by_date(hub,
                                                  forecast_dates(hub)[idx])
            IN /\ Len(model_outputs) < Len(files)
               /\ ~files[Len(model_outputs) + 1].ok) =>
           pc' = "ensemble"]_vars

\* C17: in the main loop, a readable file whose rows all cite locations
\* absent from the allow-list produces no output and no failure (the loop
\* goes on to the next file); and every row written for a readable file
\* carries the location code of a row of that file, a code of the
\* allow-list.
C17_UnlistedLocationDropped ==
  [][(/\ pc = "main" /\ idx <= Len(output_files(hub))
      /\ output_files(hub)[idx].ok) =>
       LET file == output_files(hub)[idx] IN
         /\ (file.rows # {} /\ \A q \in file.rows : q.location \notin locs) =>
              (pc' = "main" /\ idx' = idx + 1 /\ outdir' = outdir)
         /\ idx' = idx + 1 =>
              \A r \in outdir'[<<file.model, file.date>>] :
                 \E q \in file.rows :
                    /\ q.location \in locs
                    /\ q.location = r.location
                    /\ q.horizon = r.horizon]_vars

\* the step that runs next writes a file at a path where write_csv() fails
WriteFails ==
  \/ /\ pc = "main" /\ idx <= Len(output_files(hub))
     /\ ~MainLoopStops(output_files(hub)[idx])
     /\ <<output_files(hub)[idx].model, output_files(hub)[idx].date>>
          \in unwritable
  \/ /\ pc = "main" /\ idx > Len(output_files(hub))
     /\ TargetPath \in unwritable
  \/ /\ pc = "fetch" /\ remote[forecast_dates(hub)[idx]] = "ok"
     /\ <<FetchedModelId, forecast_dates(hub)[idx]>> \in unwritable
  \/ /\ pc = "ensemble"
     /\ AllRead(extract_csv_files_by_date(hub, forecast_dates(hub)[idx]),
                model_outputs)
     /\ <<EnsembleModelId, forecast_dates(hub)[idx]>> \in unwritable

\* C18: a failed write of one output file does not stop the run: the
\* script goes on with the files that remain.
C18_WriteFailureIsLocal ==
  [][WriteFails => (pc' # "aborted" /\ outdir' = outdir)]_vars

\* the paths a finished run has written, from its inputs alone
WrittenPaths ==
  {<<output_files(hub)[k].model, output_files(hub)[k].date>> :
     k \in 1..Len(output_files(hub))}
  \cup {<<FetchedModelId, d>> :
          d \in {d \in Range(forecast_dates(hub)) :
                   /\ remote[d] = "ok"
                   /\ <<FetchedModelId, d>> \notin unwritable}}
  \cup {<<EnsembleModelId, d>> : d \in Range(forecast_dates(hub))}

\* C19: when the run is over, the output directory holds exactly the
\* files of this run: the published set is determined by the inputs and
\* nothing of an earlier run is left in it.
C19_OutputIsFunctionOfInputs ==
  pc = "done" =>
    /\ DOMAIN outdir = WrittenPaths
    /\ \A k \in 1..Len(output_files(hub)) :
         LET file == output_files(hub)[k]
         IN outdir[<<file.model, file.date>>] =
              {r \in read_forecasts(file) : r.horizon # -1}

\* the pmf rows of a written file that belong to the prediction of row r
PmfPrediction(p, r) ==
  {q \in outdir[p] :
     /\ q.output_type = "pmf" /\ q.model_id = r.model_id
     /\ q.reference_date = r.reference_date /\ q.location = r.location
     /\ q.horizon = r.horizon}

\* C20: in every written file, the probabilities of every pmf prediction
\* (one model, reference date, location and horizon) sum to 1; values are
\* ten-thousandths, so a sum within 1e-6 of 1 is the sum 10000.
C20_PmfSumsToOne ==
  \A p \in DOMAIN outdir : \A r \in outdir[p] :
    r.output_type = "pmf" => SumValues(PmfPrediction(p, r)) = Fixed(1)

\* the level x (ten-thousandths) to 3 decimals: the one of the two
\* multiples of a thousandth around x that is less than half a thousandth
\* away
Nearest3(x) ==
  CHOOSE m \in {10 * (x \div 10), 10 * (x \div 10) + 10} :
    m - 5 < x /\ x < m + 5

\* the rows of the models that belong to the group of the ensemble row e
\* when levels are compared to 3 decimals
RoundedGroup(e) ==
  {r \in ModelRows(e.reference_date) :
     /\ r.location = e.location /\ r.horizon = e.horizon
     /\ r.output_type = e.output_type
     /\ Nearest3(r.output_type_id) = e.output_type_id}

\* C22: in every written ensemble file, each row averages exactly the
\* models' rows whose level, to 3 decimals, is the row's level: rows whose
\* levels agree to 3 decimals are in one group, rows whose levels differ to
\* 3 decimals are in different groups, and every row of horizon 0..3 is in
\* the group of its rounded level.
C22_RoundedLevelsGroup ==
  \A p \in EnsemblePaths :
    /\ \A e \in outdir[p] :
         /\ e.n = Cardinality(RoundedGroup(e))
         /\ e.value = SumValues(RoundedGroup(e))
    /\ \A r \in ModelRows(p[2]) :
         r.horizon \in 0..3 => \E e \in outdir[p] : r \in RoundedGroup(e)

\* two models whose levels differ in the file and agree to 3 decimals,
\* averaged in one ensemble row
C22_Witness ==
  /\ pc = "done"
  /\ \E p \in EnsemblePaths : \E e \in outdir[p] :
       /\ e.n = 2
       /\ \E r1 \in RoundedGroup(e), r2 \in RoundedGroup(e) :
            r1.output_type_id < e.output_type_id
            /\ e.output_type_id < r2.output_type_id

(***************************************************************************)
(* Claims about the publication of the output files                        *)
(***************************************************************************)
\* C6: whatever a reader sees at an output path while write_csv_with_dir
\* runs is the complete previous file or the complete new file.
C6_ReaderSeesCompleteFile ==
  \A c \in reads : c = wprev \/ c = CsvFile(wdata)

=============================================================================
